---------------------------- MODULE Spec2Model ----------------------------
(***************************************************************************)
(* Model of the microui interaction engine (src/controls.go,               *)
(* src/helpers.go): the Context of one GUI, its frame controller           *)
(* (begin/end), the window / panel / tree-node / control declarations and  *)
(* the hover / focus state machine.                                        *)
(*                                                                         *)
(* The Context is the record c.  A declaration that takes a callback       *)
(* (window, Popup, panel, treeNode) is two steps: the code before the      *)
(* callback runs and the deferred code after it; callStack holds the       *)
(* declarations whose callback is running.                                 *)
(*                                                                         *)
(* An identity (ID) is the FNV-1a hash of the enclosing scope and a byte   *)
(* string.  It is modelled as the sequence of the strings hashed so far,   *)
(* i.e. as a collision-free hash; the zero ID is the empty sequence.       *)
(* A *Container is modelled by the identity of the container it points to  *)
(* (the pool keeps one container per identity), nil by NoCnt.              *)
(* An Option mask is the set of its option names, a button mask the set of *)
(* its buttons.                                                            *)
(***************************************************************************)
EXTENDS Integers, Sequences, FiniteSets, TLC

VARIABLES c, callStack, phase, obs, bnd

vars == <<c, callStack, phase, obs, bnd>>

----------------------------------------------------------------------------
(* Bounds of the model.                                                    *)

\* SpecZ: frames (begin .. end) of one behaviour, declarations made in one
\* frame, declarations whose callback is running at the same time
ZFrames == 2
ZDecls == 3
ZDepth == 2
\* SpecS: the same
SFrames == 1
SDecls == 5
SDepth == 3
\* SpecF: the same
FFrames == 5
FDecls == 3
FDepth == 1
\* SpecH: the same
HFrames == 2
HDecls == 3
HDepth == 3
\* SpecN: the same
NFrames == 4
NDecls == 2
NDepth == 1
\* SpecP: the same
PFrames == 3
PDecls == 2
PDepth == 2
\* SpecW: the same
WFrames == 3
WDecls == 3
WDepth == 2

TFrames == 4
TDecls == 3
TDepth == 2

EFrames == 6
EDecls == 3
EDepth == 1

\* the values the caller's variables start with, the range and the step of
\* the slider, the step of the number field, and the largest magnitude a
\* variable takes: whole numbers of up to three digits
SliderStart == 50
NumberStart == 5
SliderLow == 0
SliderHigh == 90
SliderStep == 10
NumberStep == 1
MaxValue == 999

----------------------------------------------------------------------------
(* Style and layout values (style.go and layout.go are not among the       *)
(* sources; the values are those of the default style).                    *)

StylePadding == 5
StyleSpacing == 4
StyleIndent == 24
StyleTitleHeight == 24
StyleScrollbarSize == 12
StyleThumbSize == 8
\* height of a layout row: the default item height plus the padding
RowHeight == 20
\* pushLayout starts the running maximum far to the top left
LayoutFar == 16777216
\* unclippedRect is image.Rect(0, 0, 0x1000000, 0x1000000)
UnclippedSize == 16777216
\* smallest size the resize handle leaves a window
MinWindowWidth == 96
MinWindowHeight == 64

----------------------------------------------------------------------------
(* image.Point and image.Rectangle.                                        *)

Min2(a, b) == IF a < b THEN a ELSE b
Max2(a, b) == IF a > b THEN a ELSE b
clamp(x, a, b) == Min2(b, Max2(a, x))
\* Go's integer division rounds towards zero (b > 0)
GoDiv(a, b) == IF a >= 0 THEN a \div b ELSE 0 - ((0 - a) \div b)

Pt(x, y) == [X |-> x, Y |-> y]
PtAdd(p, q) == Pt(p.X + q.X, p.Y + q.Y)
PtSub(p, q) == Pt(p.X - q.X, p.Y - q.Y)

\* image.Rect: the corners are put in order
Rect(x0, y0, x1, y1) ==
  [Min |-> Pt(Min2(x0, x1), Min2(y0, y1)), Max |-> Pt(Max2(x0, x1), Max2(y0, y1))]
ZR == Rect(0, 0, 0, 0)
Dx(r) == r.Max.X - r.Min.X
Dy(r) == r.Max.Y - r.Min.Y
RectEmpty(r) == r.Min.X >= r.Max.X \/ r.Min.Y >= r.Max.Y
PtIn(p, r) == r.Min.X <= p.X /\ p.X < r.Max.X /\ r.Min.Y <= p.Y /\ p.Y < r.Max.Y
RectAdd(r, p) == [Min |-> PtAdd(r.Min, p), Max |-> PtAdd(r.Max, p)]
Intersect(r, s) ==
  LET t == [Min |-> Pt(Max2(r.Min.X, s.Min.X), Max2(r.Min.Y, s.Min.Y)),
            Max |-> Pt(Min2(r.Max.X, s.Max.X), Min2(r.Max.Y, s.Max.Y))]
  IN IF RectEmpty(t) THEN ZR ELSE t
\* Rectangle.In: every point of r is in s
RectIn(r, s) ==
  RectEmpty(r) \/ (s.Min.X <= r.Min.X /\ r.Max.X <= s.Max.X /\
                   s.Min.Y <= r.Min.Y /\ r.Max.Y <= s.Max.Y)
Inset(r, n) ==
  LET x0 == IF Dx(r) < 2 * n THEN GoDiv(r.Min.X + r.Max.X, 2) ELSE r.Min.X + n
      x1 == IF Dx(r) < 2 * n THEN GoDiv(r.Min.X + r.Max.X, 2) ELSE r.Max.X - n
      y0 == IF Dy(r) < 2 * n THEN GoDiv(r.Min.Y + r.Max.Y, 2) ELSE r.Min.Y + n
      y1 == IF Dy(r) < 2 * n THEN GoDiv(r.Min.Y + r.Max.Y, 2) ELSE r.Max.Y - n
  IN [Min |-> Pt(x0, y0), Max |-> Pt(x1, y1)]
unclippedRect == Rect(0, 0, UnclippedSize, UnclippedSize)

----------------------------------------------------------------------------
(* Sequences used as stacks.                                               *)

Top(s) == s[Len(s)]
Pop(s) == SubSeq(s, 1, Len(s) - 1)

NoID == <<>>
NoCnt == <<>>


----------------------------------------------------------------------------
(* Option and button names.                                                *)

OptNoInteract == "NoInteract"
OptHoldFocus == "HoldFocus"
OptNoFrame == "NoFrame"
OptNoResize == "NoResize"
OptNoScroll == "NoScroll"
OptNoClose == "NoClose"
OptNoTitle == "NoTitle"
OptAutoSize == "AutoSize"
OptPopup == "Popup"
OptClosed == "Closed"
OptExpanded == "Expanded"
mouseLeft == "left"
mouseRight == "right"
\* the keys the text box looks at (their constants are not among the sources)
keyShift == "shift"
keyBackspace == "backspace"
keyReturn == "return"

----------------------------------------------------------------------------
(* Identities: helpers.go, id / pushID / popID.                            *)

\* fnv1a(init, data): the hash of data continued from the scope init
fnv1a(init, data) == Append(init, data)

\* the ID that c.id(data) returns
id(ctx, data) ==
  fnv1a(IF Len(ctx.idStack) > 0 THEN Top(ctx.idStack) ELSE NoID, data)

\* the Context after c.id(data)
idCtx(ctx, data) == [ctx EXCEPT !.LastID = id(ctx, data)]

pushID(ctx, data) ==
  [ctx EXCEPT !.LastID = id(ctx, data), !.idStack = Append(@, id(ctx, data))]

popID(ctx) == [ctx EXCEPT !.idStack = Pop(@)]

----------------------------------------------------------------------------
(* Clip stack: helpers.go, pushClipRect / popClipRect / clipRect.          *)

clipRect(ctx) == Top(ctx.clipStack)

\* a push of the rectangle as it is given
pushClipRectRaw(ctx, rect) == [ctx EXCEPT !.clipStack = Append(@, rect)]

pushClipRect(ctx, rect) ==
  [ctx EXCEPT !.clipStack = Append(@, Intersect(rect, clipRect(ctx)))]

popClipRect(ctx) == [ctx EXCEPT !.clipStack = Pop(@)]

----------------------------------------------------------------------------
(* Command buffer (command.go is not among the sources).  A command is a   *)
(* record: typ, the destination index dst of a jump (-1 while unresolved), *)
(* and, as an observation, the root container inside whose declaration it  *)
(* was emitted.  Indices count from 0 as in the code: the command at       *)
(* index i is commandList[i + 1].                                          *)

\* the root container whose declaration is running, NoCnt outside of any
CurrentRoot(ctx) ==
  LET idx == {i \in 1..Len(ctx.containerStack) :
                \E j \in 1..Len(ctx.rootList) : ctx.rootList[j] = ctx.containerStack[i]}
  IN IF idx = {} THEN NoCnt
     ELSE ctx.containerStack[CHOOSE i \in idx : \A k \in idx : k <= i]

\* pushJump appends a jump and returns its index: the length before
pushJump(ctx, dstIdx) ==
  [ctx EXCEPT !.commandList =
     Append(@, [typ |-> "jump", dst |-> dstIdx, root |-> NoCnt])]

\* drawRect, drawText, drawIcon: one command each
pushDraw(ctx, typ) ==
  [ctx EXCEPT !.commandList =
     Append(@, [typ |-> typ, dst |-> -1, root |-> CurrentRoot(ctx)])]

drawFrame(ctx) == pushDraw(ctx, "rect")
drawText(ctx) == pushDraw(ctx, "text")
drawIcon(ctx) == pushDraw(ctx, "icon")

\* commandList[i].jump.dstIdx = d
setJump(ctx, i, d) == [ctx EXCEPT !.commandList[i + 1].dst = d]

----------------------------------------------------------------------------
(* Layout stack (layout.go is not among the sources): a layout record      *)
(* keeps the body it lays out, the running maximum of the rectangles it    *)
(* handed out, the indent and the top of the next row.  Rows are one       *)
(* stretched column, RowHeight high, StyleSpacing apart.                   *)

layout(ctx) == Top(ctx.layoutStack)

pushLayout(ctx, body, scroll) ==
  [ctx EXCEPT !.layoutStack =
     Append(@, [body |-> RectAdd(body, Pt(0 - scroll.X, 0 - scroll.Y)),
                max |-> Pt(0 - LayoutFar, 0 - LayoutFar),
                indent |-> 0,
                nextRow |-> body.Min.Y - scroll.Y])]

\* the rectangle layoutNext returns
layoutNextRect(ctx) ==
  LET l == layout(ctx)
  IN Rect(l.body.Min.X + l.indent, l.nextRow,
          Max2(l.body.Min.X + l.indent, l.body.Max.X), l.nextRow + RowHeight)

\* the Context after layoutNext
layoutNext(ctx) ==
  LET r == layoutNextRect(ctx)
      n == Len(ctx.layoutStack)
  IN [ctx EXCEPT !.layoutStack[n].nextRow = r.Max.Y + StyleSpacing,
                 !.layoutStack[n].max = Pt(Max2(@.X, r.Max.X), Max2(@.Y, r.Max.Y))]

----------------------------------------------------------------------------
(* Container registry: helpers.go, container / bringToFront /              *)
(* popContainer / CurrentContainer.  The pool (pool.go is not among the    *)
(* sources) maps an identity to its slot; the model never holds more       *)
(* containers than the pool has slots, so no slot is evicted.              *)

HasContainer(ctx, cid) == cid \in DOMAIN ctx.containers

CurrentContainer(ctx) == Top(ctx.containerStack)

\* a bring-to-front that samples the counter without advancing it
bringToFrontSameIndex(ctx, cnt) ==
  [ctx EXCEPT !.containers[cnt].ZIndex = ctx.lastZIndex]

bringToFront(ctx, cnt) ==
  [ctx EXCEPT !.lastZIndex = @ + 1, !.containers[cnt].ZIndex = ctx.lastZIndex + 1]

NewContainer ==
  [Rect |-> ZR, Body |-> ZR, ContentSize |-> Pt(0, 0), Scroll |-> Pt(0, 0),
   ZIndex |-> 0, Open |-> TRUE, HeadIdx |-> -1, TailIdx |-> -1]

\* the *Container that c.container(id, opt) returns
container(ctx, cid, opt) ==
  IF HasContainer(ctx, cid) THEN cid
  ELSE IF OptClosed \in opt THEN NoCnt
  ELSE cid

\* a lookup that creates the container it does not find, whatever the options
containerCtxCreates(ctx, cid, opt) ==
  IF HasContainer(ctx, cid) THEN ctx
  ELSE bringToFront(
         [ctx EXCEPT !.containers =
            [k \in DOMAIN ctx.containers \cup {cid} |->
               IF k = cid THEN NewContainer ELSE ctx.containers[k]]], cid)

\* the Context after c.container(id, opt)
containerCtx(ctx, cid, opt) ==
  IF HasContainer(ctx, cid) THEN ctx
  ELSE IF OptClosed \in opt THEN ctx
  ELSE bringToFront(
         [ctx EXCEPT !.containers =
            [k \in DOMAIN ctx.containers \cup {cid} |->
               IF k = cid THEN NewContainer ELSE ctx.containers[k]]], cid)

\* the Context after c.Container(name); it returns the container id(name)
Container(ctx, name) == containerCtx(idCtx(ctx, name), id(ctx, name), {})

popContainer(ctx) ==
  LET cnt == CurrentContainer(ctx)
      l == layout(ctx)
  IN [ctx EXCEPT !.containers[cnt].ContentSize =
                    Pt(l.max.X - l.body.Min.X, l.max.Y - l.body.Min.Y),
                 !.containerStack = Pop(@),
                 !.layoutStack = Pop(@)]

\* sfCalls is an observation: the identities SetFocus was called with
SetFocus(ctx, wid) ==
  [ctx EXCEPT !.focus = wid, !.keepFocus = TRUE, !.sfCalls = Append(@, wid)]


----------------------------------------------------------------------------
(* Hover and focus: controls.go, inHoverRoot / mouseOver / updateControl.  *)

\* a loop that does not stop at the current root container
RECURSIVE inHoverRootNoBreak(_, _)
inHoverRootNoBreak(ctx, i) ==
  IF i < 1 THEN FALSE
  ELSE IF ctx.containerStack[i] = ctx.hoverRoot THEN TRUE
  ELSE inHoverRootNoBreak(ctx, i - 1)

\* the loop of inHoverRoot, from index i of the container stack downwards
RECURSIVE inHoverRootFrom(_, _)
inHoverRootFrom(ctx, i) ==
  IF i < 1 THEN FALSE
  ELSE IF ctx.containerStack[i] = ctx.hoverRoot THEN TRUE
  ELSE IF ctx.containers[ctx.containerStack[i]].HeadIdx >= 0 THEN FALSE
  ELSE inHoverRootFrom(ctx, i - 1)

inHoverRoot(ctx) == inHoverRootFrom(ctx, Len(ctx.containerStack))

mouseOver(ctx, rect) ==
  PtIn(ctx.mousePos, rect) /\ PtIn(ctx.mousePos, clipRect(ctx)) /\ inHoverRoot(ctx)

\* an update that does not record that the focused widget was seen
updateKeepFocusNever(ctx, wid) == ctx

\* lines 67-69: the focused widget was seen in this frame
updateKeepFocus(ctx, wid) ==
  IF ctx.focus = wid THEN [ctx EXCEPT !.keepFocus = TRUE] ELSE ctx

\* hover assigned whatever the buttons
updateHoverAnyButton(ctx, wid, mouseover) ==
  IF mouseover THEN [ctx EXCEPT !.hover = wid] ELSE ctx

\* lines 73-75: the widget under the pointer becomes the hover identity
updateHover(ctx, wid, mouseover) ==
  IF mouseover /\ ctx.mouseDown = {} THEN [ctx EXCEPT !.hover = wid] ELSE ctx

\* lines 78-80: a press away from the focused widget
updateFocusLossPress(ctx, mouseover) ==
  IF ctx.mousePressed # {} /\ ~mouseover THEN SetFocus(ctx, NoID) ELSE ctx

\* a release that takes focus from a widget that holds it, too
updateFocusLossReleaseAlways(ctx, opt) ==
  IF ctx.mouseDown = {} THEN SetFocus(ctx, NoID) ELSE ctx

\* lines 81-83: no button is held and the widget does not hold focus
updateFocusLossRelease(ctx, opt) ==
  IF ctx.mouseDown = {} /\ OptHoldFocus \notin opt THEN SetFocus(ctx, NoID) ELSE ctx

\* lines 77-84: the focused widget gives focus up
updateFocusLoss(ctx, wid, mouseover, opt) ==
  IF ctx.focus = wid
  THEN updateFocusLossRelease(updateFocusLossPress(ctx, mouseover), opt)
  ELSE ctx

\* lines 86-92: the hover identity takes focus on a press, or stops hovering
updateFocusGain(ctx, wid, mouseover) ==
  IF ctx.hover = wid
  THEN IF ctx.mousePressed # {} THEN SetFocus(ctx, wid)
       ELSE IF ~mouseover THEN [ctx EXCEPT !.hover = NoID]
       ELSE ctx
  ELSE ctx

\* lines 70-92: nothing more for a widget that does not interact
updateInteract(ctx, wid, mouseover, opt) ==
  IF OptNoInteract \in opt THEN ctx
  ELSE updateFocusGain(
         updateFocusLoss(updateHover(ctx, wid, mouseover), wid, mouseover, opt),
         wid, mouseover)

\* upd is an observation: one entry for every call of updateControl with a
\* non-zero id, with what the call saw (before) and left (after); gain tells
\* that the call reached line 88
logUpdate(before, after, wid, rect, opt) ==
  [after EXCEPT !.upd = Append(@,
     [id |-> wid, opt |-> opt,
      inRect |-> PtIn(before.mousePos, rect),
      inClip |-> PtIn(before.mousePos, clipRect(before)),
      root |-> CurrentRoot(before),
      hoverRoot |-> before.hoverRoot,
      over |-> mouseOver(before, rect),
      down |-> before.mouseDown, pressed |-> before.mousePressed,
      hover0 |-> before.hover, focus0 |-> before.focus,
      hover1 |-> after.hover, focus1 |-> after.focus,
      gain |-> OptNoInteract \notin opt /\ after.hover = wid /\
               before.mousePressed # {}])]

updateControl(ctx, wid, rect, opt) ==
  IF wid = NoID THEN ctx
  ELSE logUpdate(ctx,
                 updateInteract(updateKeepFocus(ctx, wid), wid, mouseOver(ctx, rect), opt),
                 wid, rect, opt)

\* Control, up to the call of its callback; the callback gets layoutNextRect
Control(ctx, wid, opt) == updateControl(layoutNext(ctx), wid, layoutNextRect(ctx), opt)

drawControlFrame(ctx, opt) == IF OptNoFrame \in opt THEN ctx ELSE drawFrame(ctx)

drawControlText(ctx, rect) == popClipRect(drawText(pushClipRect(ctx, rect)))


----------------------------------------------------------------------------
(* Scrollbars and container body: controls.go, scrollbarVertical /         *)
(* scrollbarHorizontal / scrollbars / pushContainerBody.                   *)

\* lines 415-417 and 451-453: the rectangle of the bar
scrollbarBaseY(b) ==
  [Min |-> Pt(b.Max.X, b.Min.Y), Max |-> Pt(b.Max.X + StyleScrollbarSize, b.Max.Y)]

scrollbarBaseX(b) ==
  [Min |-> Pt(b.Min.X, b.Max.Y), Max |-> Pt(b.Max.X, b.Max.Y + StyleScrollbarSize)]

\* lines 421-425: dragging the bar scrolls, within the limits
scrollbarDragY(ctx, cnt, wid, b, cs) ==
  [ctx EXCEPT !.containers[cnt].Scroll.Y =
     clamp(IF ctx.focus = wid /\ ctx.mouseDown = {mouseLeft}
           THEN @ + GoDiv(ctx.mouseDelta.Y * cs.Y, Dy(scrollbarBaseY(b))) ELSE @,
           0, cs.Y - Dy(b))]

\* lines 457-461
scrollbarDragX(ctx, cnt, wid, b, cs) ==
  [ctx EXCEPT !.containers[cnt].Scroll.X =
     clamp(IF ctx.focus = wid /\ ctx.mouseDown = {mouseLeft}
           THEN @ + GoDiv(ctx.mouseDelta.X * cs.X, Dx(scrollbarBaseX(b))) ELSE @,
           0, cs.X - Dx(b))]

\* lines 436-438 and 472-474: the wheel scrolls the container under the pointer
scrollbarTarget(ctx, cnt, b) ==
  IF mouseOver(ctx, b) THEN [ctx EXCEPT !.scrollTarget = cnt] ELSE ctx

scrollbarVertical(ctx, cnt, b, cs) ==
  IF cs.Y - Dy(b) > 0 /\ Dy(b) > 0
  THEN scrollbarTarget(
         drawFrame(drawFrame(
           scrollbarDragY(
             updateControl(idCtx(ctx, "!scrollbary"), id(ctx, "!scrollbary"),
                           scrollbarBaseY(b), {}),
             cnt, id(ctx, "!scrollbary"), b, cs))),
         cnt, b)
  ELSE [ctx EXCEPT !.containers[cnt].Scroll.Y = 0]

scrollbarHorizontal(ctx, cnt, b, cs) ==
  IF cs.X - Dx(b) > 0 /\ Dx(b) > 0
  THEN scrollbarTarget(
         drawFrame(drawFrame(
           scrollbarDragX(
             updateControl(idCtx(ctx, "!scrollbarx"), id(ctx, "!scrollbarx"),
                           scrollbarBaseX(b), {}),
             cnt, id(ctx, "!scrollbarx"), b, cs))),
         cnt, b)
  ELSE [ctx EXCEPT !.containers[cnt].Scroll.X = 0]

\* lines 491-493: the content size with its padding
scrollbarsSize(ctx, cnt) ==
  PtAdd(ctx.containers[cnt].ContentSize, Pt(StylePadding * 2, StylePadding * 2))

\* the body that scrollbars(cnt, body) returns
scrollbarsBody(ctx, cnt, body) ==
  [Min |-> body.Min,
   Max |-> Pt(IF scrollbarsSize(ctx, cnt).Y > Dy(ctx.containers[cnt].Body)
              THEN body.Max.X - StyleScrollbarSize ELSE body.Max.X,
              IF scrollbarsSize(ctx, cnt).X > Dx(ctx.containers[cnt].Body)
              THEN body.Max.Y - StyleScrollbarSize ELSE body.Max.Y)]

\* the Context after scrollbars(cnt, body)
scrollbars(ctx, cnt, body) ==
  popClipRect(
    scrollbarHorizontal(
      scrollbarVertical(pushClipRect(ctx, body), cnt,
                        scrollbarsBody(ctx, cnt, body), scrollbarsSize(ctx, cnt)),
      cnt, scrollbarsBody(ctx, cnt, body), scrollbarsSize(ctx, cnt)))

\* lines 514-515: the layout of the body b
pushBodyLayout(ctx, cnt, b) ==
  [pushLayout(ctx, Inset(b, StylePadding), ctx.containers[cnt].Scroll)
     EXCEPT !.containers[cnt].Body = b]

pushContainerBody(ctx, cnt, body, opt) ==
  IF OptNoScroll \notin opt
  THEN pushBodyLayout(scrollbars(ctx, cnt, body), cnt, scrollbarsBody(ctx, cnt, body))
  ELSE pushBodyLayout(ctx, cnt, body)

\* lines 624 and 660: c.pushClipRect(cnt.Body)
pushBodyClip(ctx, cnt) == pushClipRect(ctx, ctx.containers[cnt].Body)


----------------------------------------------------------------------------
(* Windows: controls.go, window / OpenPopup / Popup.                       *)

\* a window that returns early only when it got no container
windowReturnsEarlyOnlyNil(ctx, title, opt) ==
  container(ctx, id(ctx, title), opt) = NoCnt

\* window returns at line 523, before it pushes anything
windowReturnsEarly(ctx, title, opt) ==
  IF container(ctx, id(ctx, title), opt) = NoCnt THEN TRUE
  ELSE ~containerCtx(ctx, id(ctx, title), opt).containers[id(ctx, title)].Open

\* lines 530-532: the rectangle of a window that has none yet
windowInitRect(ctx, cnt, rect) ==
  IF Dx(ctx.containers[cnt].Rect) = 0
  THEN [ctx EXCEPT !.containers[cnt].Rect = rect] ELSE ctx

\* lines 534-539: the window is a root, its commands begin with a jump
windowRoot(ctx, cnt) ==
  pushJump([ctx EXCEPT !.containerStack = Append(@, cnt),
                       !.rootList = Append(@, cnt),
                       !.containers[cnt].HeadIdx = Len(ctx.commandList)], -1)

\* the window under the pointer that was declared last, whatever its z-index
windowHoverRootLast(ctx, cnt) ==
  IF PtIn(ctx.mousePos, ctx.containers[cnt].Rect)
  THEN [ctx EXCEPT !.nextHoverRoot = cnt]
  ELSE ctx

\* lines 548-552: the window under the pointer with the highest z-index
windowHoverRoot(ctx, cnt) ==
  IF PtIn(ctx.mousePos, ctx.containers[cnt].Rect) /\
     (ctx.nextHoverRoot = NoCnt \/
      ctx.containers[cnt].ZIndex > ctx.containers[ctx.nextHoverRoot].ZIndex)
  THEN [ctx EXCEPT !.nextHoverRoot = cnt]
  ELSE ctx

\* line 557
windowUnclip(ctx) == [ctx EXCEPT !.clipStack = Append(@, unclippedRect)]

\* lines 563-566
windowFrame(ctx, opt) == IF OptNoFrame \notin opt THEN drawFrame(ctx) ELSE ctx

\* lines 570-571: the rectangle of the title bar of the window at wr
windowTitleRect(wr) == [Min |-> wr.Min, Max |-> Pt(wr.Max.X, wr.Min.Y + StyleTitleHeight)]

\* lines 560 and 582: the body of the window at wr
windowBodyRect(wr, opt) ==
  IF OptNoTitle \notin opt
  THEN [Min |-> Pt(wr.Min.X, wr.Min.Y + Dy(windowTitleRect(wr))), Max |-> wr.Max]
  ELSE wr

\* lines 579-581: dragging the title bar moves the window
windowDrag(ctx, cnt, wid) ==
  IF wid = ctx.focus /\ ctx.mouseDown = {mouseLeft}
  THEN [ctx EXCEPT !.containers[cnt].Rect = RectAdd(@, ctx.mouseDelta)]
  ELSE ctx

\* lines 568-583: the title bar tr
windowTitle(ctx, cnt, tr, opt) ==
  IF OptNoTitle \in opt THEN ctx
  ELSE windowDrag(
         drawControlText(
           updateControl(idCtx(drawFrame(ctx), "!title"), id(ctx, "!title"), tr, opt), tr),
         cnt, id(ctx, "!title"))

\* lines 592-594: a click on the close button closes the window
windowClosed(ctx, cnt, wid) ==
  IF ctx.mousePressed = {mouseLeft} /\ wid = ctx.focus
  THEN [ctx EXCEPT !.containers[cnt].Open = FALSE]
  ELSE ctx

\* lines 585-595: the close button, at the right end of the title bar tr
windowClose(ctx, cnt, tr, opt) ==
  IF OptNoTitle \in opt \/ OptNoClose \in opt THEN ctx
  ELSE windowClosed(
         updateControl(drawIcon(idCtx(ctx, "!close")), id(ctx, "!close"),
                       Rect(tr.Max.X - Dy(tr), tr.Min.Y, tr.Max.X, tr.Max.Y), opt),
         cnt, id(ctx, "!close"))

\* lines 606-609: dragging the handle resizes the window
windowResized(ctx, cnt, wid) ==
  IF wid = ctx.focus /\ ctx.mouseDown = {mouseLeft}
  THEN [ctx EXCEPT !.containers[cnt].Rect.Max =
          Pt(ctx.containers[cnt].Rect.Min.X +
               Max2(MinWindowWidth, Dx(ctx.containers[cnt].Rect) + ctx.mouseDelta.X),
             ctx.containers[cnt].Rect.Min.Y +
               Max2(MinWindowHeight, Dy(ctx.containers[cnt].Rect) + ctx.mouseDelta.Y))]
  ELSE ctx

\* lines 600-610: the resize handle, in the corner of wr
windowResize(ctx, cnt, wr, opt) ==
  IF OptNoResize \in opt THEN ctx
  ELSE windowResized(
         updateControl(idCtx(ctx, "!resize"), id(ctx, "!resize"),
                       Rect(wr.Max.X - StyleTitleHeight, wr.Max.Y - StyleTitleHeight,
                            wr.Max.X, wr.Max.Y), opt),
         cnt, id(ctx, "!resize"))

\* lines 612-617: resize to content size
windowAutoSize(ctx, cnt, opt) ==
  IF OptAutoSize \notin opt THEN ctx
  ELSE [ctx EXCEPT !.containers[cnt].Rect.Max =
          Pt(ctx.containers[cnt].Rect.Min.X + ctx.containers[cnt].ContentSize.X +
               (Dx(ctx.containers[cnt].Rect) - Dx(layout(ctx).body)),
             ctx.containers[cnt].Rect.Min.Y + ctx.containers[cnt].ContentSize.Y +
               (Dy(ctx.containers[cnt].Rect) - Dy(layout(ctx).body)))]

\* a popup that closes on any press, wherever it was
windowPopupCloseAnyPress(ctx, cnt, opt) ==
  IF OptPopup \in opt /\ ctx.mousePressed # {}
  THEN [ctx EXCEPT !.containers[cnt].Open = FALSE]
  ELSE ctx

\* lines 619-622: a popup closes when elsewhere was clicked
windowPopupClose(ctx, cnt, opt) ==
  IF OptPopup \in opt /\ ctx.mousePressed # {} /\ ctx.hoverRoot # cnt
  THEN [ctx EXCEPT !.containers[cnt].Open = FALSE]
  ELSE ctx

\* lines 563-624: the window drawn at wr, the rectangle it has at line 560
windowAt(ctx, cnt, wr, opt) ==
  pushBodyClip(
    windowPopupClose(
      windowAutoSize(
        windowResize(
          pushContainerBody(
            windowClose(
              windowTitle(windowFrame(ctx, opt), cnt, windowTitleRect(wr), opt),
              cnt, windowTitleRect(wr), opt),
            cnt, windowBodyRect(wr, opt), opt),
          cnt, wr, opt),
        cnt, opt),
      cnt, opt),
    cnt)

\* lines 560-624
windowDraw(ctx, cnt, opt) == windowAt(ctx, cnt, ctx.containers[cnt].Rect, opt)

\* lines 525-625: window, from the push of its id to the call of f
windowBody(ctx, cnt, rect, opt) ==
  windowDraw(
    windowUnclip(
      windowHoverRoot(
        windowRoot(
          windowInitRect([ctx EXCEPT !.idStack = Append(@, cnt)], cnt, rect),
          cnt),
        cnt)),
    cnt, opt)

\* a window that pushes its id before it looks at the container
windowPushesFirst(ctx, title, rect, opt) ==
  IF windowReturnsEarly(ctx, title, opt)
  THEN pushID(containerCtx(idCtx(ctx, title), id(ctx, title), opt), title)
  ELSE windowBody(containerCtx(idCtx(ctx, title), id(ctx, title), opt),
                  id(ctx, title), rect, opt)

\* window, up to the call of f (or to its early return)
window(ctx, title, rect, opt) ==
  IF windowReturnsEarly(ctx, title, opt)
  THEN containerCtx(idCtx(ctx, title), id(ctx, title), opt)
  ELSE windowBody(containerCtx(idCtx(ctx, title), id(ctx, title), opt),
                  id(ctx, title), rect, opt)

\* lines 540-546: the tail jump; the head jump skips the window's commands
windowTail(ctx) ==
  setJump([pushJump(ctx, -1)
             EXCEPT !.containers[CurrentContainer(ctx)].TailIdx = Len(ctx.commandList)],
          ctx.containers[CurrentContainer(ctx)].HeadIdx,
          Len(ctx.commandList) + 1)

\* the deferred calls of window, run when f has returned
windowDeferred(ctx) ==
  popID(popContainer(windowTail(popClipRect(popClipRect(ctx)))))

PopupOpt == {OptPopup, OptAutoSize, OptNoResize, OptNoScroll, OptNoTitle, OptClosed}

\* lines 632-638
openPopupAt(ctx, cnt) ==
  bringToFront(
    [ctx EXCEPT !.nextHoverRoot = cnt, !.hoverRoot = cnt,
                !.containers[cnt].Rect =
                   Rect(ctx.mousePos.X, ctx.mousePos.Y,
                        ctx.mousePos.X + 1, ctx.mousePos.Y + 1),
                !.containers[cnt].Open = TRUE], cnt)

OpenPopup(ctx, name) == openPopupAt(Container(ctx, name), id(ctx, name))

----------------------------------------------------------------------------
(* Panels: controls.go, panel.                                             *)

\* lines 651-654: the panel takes the next rectangle of the layout
panelFrame(ctx, cnt, rect, opt) ==
  IF OptNoFrame \notin opt
  THEN drawFrame([ctx EXCEPT !.containers[cnt].Rect = rect])
  ELSE [ctx EXCEPT !.containers[cnt].Rect = rect]

\* lines 656-660
panelBody(ctx, cnt, rect, opt) ==
  pushBodyClip(
    pushContainerBody([ctx EXCEPT !.containerStack = Append(@, cnt)], cnt, rect, opt),
    cnt)

\* panel, up to the call of f
panel(ctx, name, opt) ==
  panelBody(
    panelFrame(layoutNext(containerCtx(pushID(ctx, name), id(ctx, name), opt)),
               id(ctx, name), layoutNextRect(ctx), opt),
    id(ctx, name), layoutNextRect(ctx), opt)

\* the deferred calls of panel
panelDeferred(ctx) == popID(popContainer(popClipRect(ctx)))


----------------------------------------------------------------------------
(* Controls: controls.go, Control / buttonEx / Text / header / treeNode.   *)

\* buttonEx: Control with the callback that draws the button
buttonEx(ctx, label, opt) ==
  IF label # ""
  THEN drawControlText(
         drawControlFrame(Control(idCtx(ctx, label), id(ctx, label), opt), opt),
         layoutNextRect(ctx))
  ELSE drawControlFrame(Control(ctx, NoID, opt), opt)

\* Text: the loop of Control(0, 0, ...), one call for every line
RECURSIVE textLines(_, _)
textLines(ctx, n) ==
  IF n = 0 THEN ctx
  ELSE textLines(drawText(Control(ctx, NoID, {})), n - 1)

\* LayoutColumn (layout.go) runs its callback on a layout record of its own
columnBegin(ctx) ==
  pushLayout(ctx, [Min |-> Pt(layout(ctx).body.Min.X + layout(ctx).indent,
                              layout(ctx).nextRow),
                   Max |-> layout(ctx).body.Max], Pt(0, 0))

\* and then moves the enclosing layout past it
columnEnd(ctx) ==
  [ctx EXCEPT !.layoutStack =
     [Pop(ctx.layoutStack) EXCEPT
        ![Len(ctx.layoutStack) - 1].nextRow = Max2(@, layout(ctx).nextRow),
        ![Len(ctx.layoutStack) - 1].max =
           Pt(Max2(@.X, layout(ctx).max.X), Max2(@.Y, layout(ctx).max.Y))]]

Text(ctx, n) == columnEnd(textLines(columnBegin(ctx), n))

\* the expanded state that header reports: lines 326-336 and 383-386
headerExpanded(ctx, label, opt) ==
  IF OptExpanded \in opt THEN id(ctx, label) \notin ctx.treeNodePool
  ELSE id(ctx, label) \in ctx.treeNodePool

\* a pool that no click changes
headerPoolKept(ctx, wid, active) == ctx

\* lines 340-359: a click toggles the entry of the tree-node pool
headerPool(ctx, wid, active) ==
  [ctx EXCEPT !.treeNodePool =
     IF active # (ctx.mousePressed = {mouseLeft} /\ ctx.focus = wid)
     THEN @ \cup {wid} ELSE @ \ {wid}]

\* lines 361-381
headerDraw(ctx, wid, istreenode, r) ==
  drawControlText(
    drawIcon(IF istreenode
             THEN (IF ctx.hover = wid THEN drawFrame(ctx) ELSE ctx)
             ELSE drawControlFrame(ctx, {})),
    r)

\* header: lines 325-388
header(ctx, label, istreenode, opt) ==
  headerDraw(
    headerPool(Control(idCtx(ctx, label), id(ctx, label), {}),
               id(ctx, label), id(ctx, label) \in ctx.treeNodePool),
    id(ctx, label), istreenode, layoutNextRect(ctx))

\* HeaderEx: lines 390-392
HeaderEx(ctx, label, opt) == header(ctx, label, FALSE, opt)

\* lines 399 and 403: the children are indented and scoped by the node's id
treeNodePush(ctx) ==
  [ctx EXCEPT !.layoutStack[Len(ctx.layoutStack)].indent = @ + StyleIndent,
              !.idStack = Append(@, ctx.LastID)]

\* treeNode, up to the call of f (or to its return when not expanded)
treeNode(ctx, label, opt) ==
  IF headerExpanded(ctx, label, opt)
  THEN treeNodePush(header(ctx, label, TRUE, opt))
  ELSE header(ctx, label, TRUE, opt)

\* lines 400-402
treeNodeUnindent(ctx) ==
  [ctx EXCEPT !.layoutStack[Len(ctx.layoutStack)].indent = @ - StyleIndent]

\* the deferred calls of treeNode
treeNodeDeferred(ctx) == treeNodeUnindent(popID(ctx))


----------------------------------------------------------------------------
(* Text box, slider and number field: controls.go, textBoxRaw /            *)
(* numberTextBox / SliderEx / NumberEx.  A string is a sequence of         *)
(* one-character strings.  The values are whole numbers of at most three   *)
(* digits: realFmt (fmt.Sprintf) prints them digit by digit, and           *)
(* strconv.ParseFloat reads an optional sign followed by digits back to    *)
(* the same number; of the strings made of digits, "-" and "a" it takes no *)
(* other.                                                                  *)

Digits == <<"0", "1", "2", "3", "4", "5", "6", "7", "8", "9">>

RECURSIVE formatNat(_)
formatNat(n) ==
  IF n < 10 THEN <<Digits[n + 1]>>
  ELSE Append(formatNat(n \div 10), Digits[(n % 10) + 1])

\* fmt.Sprintf(realFmt, v): line 230
Sprintf(v) == IF v < 0 THEN <<"-">> \o formatNat(0 - v) ELSE formatNat(v)

RECURSIVE parseNat(_)
parseNat(str) ==
  IF str = <<>> THEN 0
  ELSE parseNat(SubSeq(str, 1, Len(str) - 1)) * 10 +
       (CHOOSE i \in 1..10 : Digits[i] = str[Len(str)]) - 1

Unsigned(str) == IF str # <<>> /\ Head(str) \in {"-", "+"} THEN Tail(str) ELSE str

\* strconv.ParseFloat(str, 32), line 235: err
ParseFloatErr(str) ==
  \/ Unsigned(str) = <<>>
  \/ \E i \in 1..Len(Unsigned(str)) : \A d \in 1..10 : Unsigned(str)[i] # Digits[d]

\* and nval
ParseFloat(str) ==
  IF str # <<>> /\ Head(str) = "-" THEN 0 - parseNat(Unsigned(str))
  ELSE parseNat(Unsigned(str))

\* math.Round(a / b) for b > 0: halves go away from zero
Round(a, b) ==
  IF a >= 0 THEN (2 * a + b) \div (2 * b) ELSE 0 - ((b - 2 * a) \div (2 * b))

\* lines 186-198: the text typed is appended, backspace cuts the buffer to
\* one less than the length it had before
textBoxInput(ctx, wid) ==
  IF ctx.focus # wid THEN ctx
  ELSE IF keyBackspace \in ctx.keyPressed /\ Len(ctx.numberEditBuf) > 0
  THEN [ctx EXCEPT !.numberEditBuf = SubSeq(@, 1, Len(@) - 1)]
  ELSE [ctx EXCEPT !.numberEditBuf = @ \o ctx.textInput]

\* line 200: Return submits
textBoxSubmits(ctx, wid) == ctx.focus = wid /\ keyReturn \in ctx.keyPressed

\* lines 199-203
textBoxReturn(ctx, wid) == IF textBoxSubmits(ctx, wid) THEN SetFocus(ctx, NoID) ELSE ctx

\* lines 206-221
textBoxDraw(ctx, wid, r, opt) ==
  IF ctx.focus = wid
  THEN popClipRect(drawFrame(drawText(pushClipRect(drawControlFrame(ctx, opt), r))))
  ELSE drawControlText(drawControlFrame(ctx, opt), r)

\* textBoxRaw with buf = &c.numberEditBuf, as line 233 calls it
textBoxRaw(ctx, wid, opt) ==
  textBoxDraw(
    textBoxReturn(textBoxInput(Control(ctx, wid, opt \cup {OptHoldFocus}), wid), wid),
    wid, layoutNextRect(ctx), opt)

\* the ResponseSubmit of that call
textBoxRawSubmits(ctx, wid, opt) ==
  textBoxSubmits(Control(ctx, wid, opt \cup {OptHoldFocus}), wid)

\* lines 227-231: a shift-click on the hovered widget starts the edit mode
numberEditStart(ctx, value, wid) ==
  IF ctx.mousePressed = {mouseLeft} /\ keyShift \in ctx.keyDown /\ ctx.hover = wid
  THEN [ctx EXCEPT !.numberEdit = wid, !.numberEditBuf = Sprintf(value)]
  ELSE ctx

\* line 232: what numberTextBox returns
numberEditing(ctx, value, wid) == numberEditStart(ctx, value, wid).numberEdit = wid

\* line 233
numberEditBox(ctx, value, wid) == textBoxRaw(numberEditStart(ctx, value, wid), wid, {})

\* line 234
numberEditEnds(ctx, value, wid) ==
  \/ textBoxRawSubmits(numberEditStart(ctx, value, wid), wid, {})
  \/ numberEditBox(ctx, value, wid).focus # wid

\* lines 235-239: what *value is when numberTextBox returns
numberEditValue(ctx, value, wid) ==
  IF numberEditing(ctx, value, wid) /\ numberEditEnds(ctx, value, wid)
  THEN (IF ParseFloatErr(numberEditBox(ctx, value, wid).numberEditBuf) THEN 0
        ELSE ParseFloat(numberEditBox(ctx, value, wid).numberEditBuf))
  ELSE value

\* numberTextBox: lines 226-245, the Context it leaves
numberTextBox(ctx, value, wid) ==
  IF ~numberEditing(ctx, value, wid) THEN ctx
  ELSE IF numberEditEnds(ctx, value, wid)
  THEN [numberEditBox(ctx, value, wid) EXCEPT !.numberEdit = NoID]
  ELSE numberEditBox(ctx, value, wid)

\* lines 266-273: v after the input and the clamp; ctx is the Context after
\* updateControl and r the rectangle of the slider
sliderValue(ctx, wid, v, r, low, high, step) ==
  IF ctx.focus = wid /\ (ctx.mouseDown \cup ctx.mousePressed) = {mouseLeft}
  THEN clamp(Round(low * Dx(r) + (ctx.mousePos.X - r.Min.X) * (high - low),
                   Dx(r) * step) * step, low, high)
  ELSE clamp(v, low, high)

\* lines 263-291: the normal mode of the slider
sliderControl(ctx, ptr, wid, low, high, step, opt) ==
  drawControlText(
    drawControlFrame(
      drawControlFrame(
        [Control(ctx, wid, opt) EXCEPT
           !.heap[ptr] = sliderValue(Control(ctx, wid, opt), wid, ctx.heap[ptr],
                                     layoutNextRect(ctx), low, high, step)],
        opt),
      opt),
    layoutNextRect(ctx))

\* SliderEx: lines 252-292; numberTextBox is given the address of the local
\* v, and what it stores there is dropped by the return of line 259
SliderEx(ctx, ptr, low, high, step, opt) ==
  IF numberEditing(idCtx(ctx, ptr), ctx.heap[ptr], id(ctx, ptr))
  THEN numberTextBox(idCtx(ctx, ptr), ctx.heap[ptr], id(ctx, ptr))
  ELSE sliderControl(idCtx(ctx, ptr), ptr, id(ctx, ptr), low, high, step, opt)

\* lines 304-322: the normal mode of the number field
numberControl(ctx, ptr, wid, step, opt) ==
  drawControlText(
    drawControlFrame(
      [Control(ctx, wid, opt) EXCEPT
         !.heap[ptr] = IF Control(ctx, wid, opt).focus = wid /\
                          ctx.mouseDown = {mouseLeft}
                       THEN @ + ctx.mouseDelta.X * step ELSE @],
      opt),
    layoutNextRect(ctx))

\* a number field that drops what the text box stored
NumberExDropsEdit(ctx, ptr, step, opt) ==
  IF numberEditing(idCtx(ctx, ptr), ctx.heap[ptr], id(ctx, ptr))
  THEN numberTextBox(idCtx(ctx, ptr), ctx.heap[ptr], id(ctx, ptr))
  ELSE numberControl(idCtx(ctx, ptr), ptr, id(ctx, ptr), step, opt)

\* NumberEx: lines 294-323; numberTextBox is given value itself
NumberEx(ctx, ptr, step, opt) ==
  IF numberEditing(idCtx(ctx, ptr), ctx.heap[ptr], id(ctx, ptr))
  THEN [numberTextBox(idCtx(ctx, ptr), ctx.heap[ptr], id(ctx, ptr)) EXCEPT
          !.heap[ptr] = numberEditValue(idCtx(ctx, ptr), ctx.heap[ptr], id(ctx, ptr))]
  ELSE numberControl(idCtx(ctx, ptr), ptr, id(ctx, ptr), step, opt)


----------------------------------------------------------------------------
(* Frame controller: helpers.go, expect / begin / end.                     *)

\* expect panics when x is false; panic records that the program halted
expect(ctx, x) == IF x THEN ctx ELSE [ctx EXCEPT !.panic = TRUE]

\* updateInput (input.go is not among the sources) takes the input of the
\* frame: the pointer, the buttons and keys held (their edges are the ones
\* newly held), the wheel and the text typed
updateInput(ctx, in) ==
  [ctx EXCEPT !.mousePos = in.pos,
              !.mouseDown = in.down,
              !.mousePressed = in.down \ ctx.mouseDown,
              !.keyDown = in.keys,
              !.keyPressed = in.keys \ ctx.keyDown,
              !.textInput = in.text,
              !.scrollDelta = in.wheel]

\* a begin that keeps the scroll target of the frame before
beginFrameKeepsTarget(ctx) ==
  [ctx EXCEPT !.commandList = <<>>,
              !.rootList = <<>>,
              !.hoverRoot = ctx.nextHoverRoot,
              !.nextHoverRoot = NoCnt,
              !.mouseDelta = PtSub(ctx.mousePos, ctx.lastMousePos),
              !.tick = @ + 1]

\* lines 192-201
beginFrame(ctx) ==
  [ctx EXCEPT !.commandList = <<>>,
              !.rootList = <<>>,
              !.scrollTarget = NoCnt,
              !.hoverRoot = ctx.nextHoverRoot,
              !.nextHoverRoot = NoCnt,
              !.mouseDelta = PtSub(ctx.mousePos, ctx.lastMousePos),
              !.tick = @ + 1]

begin(ctx, in) == beginFrame(updateInput(ctx, in))

\* lines 205-209: the four stacks are empty
endCheck(ctx) ==
  expect(expect(expect(expect(ctx, Len(ctx.containerStack) = 0),
                       Len(ctx.clipStack) = 0),
                Len(ctx.idStack) = 0),
         Len(ctx.layoutStack) = 0)

\* lines 211-215: the scroll input goes to the scroll target
endScroll(ctx) ==
  IF ctx.scrollTarget # NoCnt
  THEN [ctx EXCEPT !.containers[ctx.scrollTarget].Scroll = PtAdd(@, ctx.scrollDelta)]
  ELSE ctx

\* lines 217-221: focus is dropped unless it was kept in this frame
endFocus(ctx) ==
  [ctx EXCEPT !.focus = IF ~ctx.keepFocus THEN NoID ELSE @, !.keepFocus = FALSE]

\* a press that brings the hover root of this frame to the front, not the
\* one found in this frame
endBringToFrontHoverRoot(ctx) ==
  IF ctx.mousePressed # {} /\ ctx.hoverRoot # NoCnt /\
     ctx.containers[ctx.hoverRoot].ZIndex < ctx.lastZIndex /\
     ctx.containers[ctx.hoverRoot].ZIndex >= 0
  THEN bringToFront(ctx, ctx.hoverRoot)
  ELSE ctx

\* lines 223-228: a press brings the hover root to the front
endBringToFront(ctx) ==
  IF ctx.mousePressed # {} /\ ctx.nextHoverRoot # NoCnt /\
     ctx.containers[ctx.nextHoverRoot].ZIndex < ctx.lastZIndex /\
     ctx.containers[ctx.nextHoverRoot].ZIndex >= 0
  THEN bringToFront(ctx, ctx.nextHoverRoot)
  ELSE ctx

\* an end that leaves the pressed buttons and the wheel for the next frame
endResetInputKeepsEdges(ctx) ==
  [ctx EXCEPT !.keyPressed = {}, !.textInput = <<>>, !.lastMousePos = ctx.mousePos]

\* lines 230-235: the input of the frame is used up
endResetInput(ctx) ==
  [ctx EXCEPT !.keyPressed = {}, !.textInput = <<>>, !.mousePressed = {},
              !.scrollDelta = Pt(0, 0), !.lastMousePos = ctx.mousePos]

\* sort.SliceStable by ZIndex: x goes behind the entries that are not above it
insertByZIndex(ctx, sorted, x) ==
  LET k == Cardinality({i \in 1..Len(sorted) :
                          ctx.containers[sorted[i]].ZIndex <= ctx.containers[x].ZIndex})
  IN SubSeq(sorted, 1, k) \o <<x>> \o SubSeq(sorted, k + 1, Len(sorted))

RECURSIVE sortByZIndex(_, _)
sortByZIndex(ctx, list) ==
  IF list = <<>> THEN <<>>
  ELSE insertByZIndex(ctx, sortByZIndex(ctx, Pop(list)), Top(list))

\* a root list left in call order
endSortNone(ctx) == ctx

\* lines 237-240
endSort(ctx) == [ctx EXCEPT !.rootList = sortByZIndex(ctx, ctx.rootList)]

\* lines 249-250: the first command jumps to the first root
endPatchFirst(ctx) ==
  IF ctx.panic THEN ctx
  ELSE setJump(ctx, 0, ctx.containers[ctx.rootList[1]].HeadIdx + 1)

\* lines 245-254: the jump that leads to rootList[i] (i counts from 0)
endPatchLink(ctx, i) ==
  IF i = 0
  THEN endPatchFirst(expect(ctx, ctx.commandList[1].typ = "jump"))
  ELSE setJump(ctx, ctx.containers[ctx.rootList[i]].TailIdx,
               ctx.containers[ctx.rootList[i + 1]].HeadIdx + 1)

\* a loop that leaves the tail of the last root unresolved
endPatchLastNone(ctx, i) == ctx

\* lines 256-259: the tail of the last root jumps to the end
endPatchLast(ctx, i) ==
  IF ctx.panic THEN ctx
  ELSE IF i = Len(ctx.rootList) - 1
  THEN setJump(ctx, ctx.containers[ctx.rootList[i + 1]].TailIdx, Len(ctx.commandList))
  ELSE ctx

\* lines 244-259: the body of the loop for rootList[i]
endPatchOne(ctx, i) == endPatchLast(endPatchLink(ctx, i), i)

\* lines 242-260: the loop, from i on
RECURSIVE endPatchFrom(_, _)
endPatchFrom(ctx, i) ==
  IF i >= Len(ctx.rootList) \/ ctx.panic THEN ctx
  ELSE endPatchFrom(endPatchOne(ctx, i), i + 1)

endPatch(ctx) == endPatchFrom(ctx, 0)

\* lines 211-260: what end does when its checks have passed
endRun(ctx) ==
  IF ctx.panic THEN ctx
  ELSE endPatch(endSort(endResetInput(endBringToFront(endFocus(endScroll(ctx))))))

\* an end that checks the stacks after it has done its work
endChecksLast(ctx) ==
  IF endCheck(ctx).panic
  THEN [endResetInput(endBringToFront(endFocus(endScroll(ctx)))) EXCEPT !.panic = TRUE]
  ELSE endRun(ctx)

end(ctx) == endRun(endCheck(ctx))


----------------------------------------------------------------------------
(* The state machine.                                                      *)
(*                                                                         *)
(* phase: "idle" between frames, "frame" between begin and end, "halted"   *)
(* after a panic.  obs holds observations of the current frame that the    *)
(* properties below speak about; no step of the program reads it, except   *)
(* for decls and declared, which bound the frame and keep the identities   *)
(* declared in one frame distinct.  Of obs: op is the last operation and   *)
(* kinds the operations of the frame; under holds the windows declared     *)
(* open with the pointer inside and opened the popups opened; focus0 is    *)
(* the focus the frame began with; touched holds what updateControl was    *)
(* called with; sf tells that SetFocus ran and sfUser that f called it;    *)
(* byPress is the identity that took focus by a press (line 88), has it    *)
(* since and was declared in every frame since, in frames in which f did   *)
(* not call SetFocus; byPress0 is its value when the frame began; marked   *)
(* is the container that was last made the scroll target in the frame and  *)
(* input the input the frame began with; hdr holds, for every header and   *)
(* tree node declared in the frame, what its call did: pre tells that it   *)
(* was declared pre-expanded, rep that it reported expanded, clk that it   *)
(* was clicked, tree that it is a tree node, body that its callback was    *)
(* called and fresh that it had not been clicked before; prev is the hdr   *)
(* of the frame before and clicked the headers clicked so far; num tells   *)
(* of the last call of a slider or number field: the variable it is bound  *)
(* to, its identity, whether it ran in edit mode, and whether Return was   *)
(* pressed or the focus was elsewhere when it returned.                    *)

(* heap is not a field of Context: it holds the float64 variables of the    *)
(* caller that the pointers given to SliderEx and NumberEx point to.       *)

Heap0 == [p \in {"s", "n"} |-> IF p = "s" THEN SliderStart ELSE NumberStart]

Context0 ==
  [mousePos |-> Pt(0, 0), lastMousePos |-> Pt(0, 0), mouseDelta |-> Pt(0, 0),
   mouseDown |-> {}, mousePressed |-> {}, keyDown |-> {}, keyPressed |-> {},
   textInput |-> <<>>, scrollDelta |-> Pt(0, 0),
   hover |-> NoID, focus |-> NoID, keepFocus |-> FALSE, LastID |-> NoID,
   hoverRoot |-> NoCnt, nextHoverRoot |-> NoCnt, scrollTarget |-> NoCnt,
   containers |-> [k \in {} |-> NewContainer], lastZIndex |-> 0, treeNodePool |-> {},
   idStack |-> <<>>, clipStack |-> <<>>, containerStack |-> <<>>,
   layoutStack |-> <<>>, commandList |-> <<>>, rootList |-> <<>>,
   tick |-> 0, panic |-> FALSE, upd |-> <<>>, sfCalls |-> <<>>,
   numberEdit |-> NoID, numberEditBuf |-> <<>>, heap |-> Heap0]

NoNum == [ptr |-> "", id |-> NoID, kind |-> "", editing |-> FALSE, ended |-> FALSE]

Obs0 ==
  [op |-> "new", kinds |-> {}, decls |-> 0, declared |-> {}, under |-> {}, opened |-> {},
   focus0 |-> NoID, touched |-> {}, sf |-> FALSE, sfUser |-> FALSE,
   byPress |-> NoID, byPress0 |-> NoID, marked |-> NoCnt, input |-> <<>>,
   hdr |-> [k \in {} |-> FALSE], prev |-> [k \in {} |-> FALSE], clicked |-> {},
   num |-> NoNum]

\* a new Context; b gives the bounds of the behaviour
InitWith(b) ==
  /\ c = Context0
  /\ callStack = <<>>
  /\ phase = "idle"
  /\ obs = Obs0
  /\ bnd = b

\* the Context a step starts from: the observations of the last step dropped
Fresh == [c EXCEPT !.upd = <<>>, !.sfCalls = <<>>]

\* the observations of the frame after a step that left the Context n
Observe(n, op, ids) ==
  [obs EXCEPT !.op = op,
              !.kinds = @ \cup {op},
              !.decls = @ + 1,
              !.declared = @ \cup ids,
              !.touched = @ \cup {[id |-> n.upd[i].id, over |-> n.upd[i].over,
                                   opt |-> n.upd[i].opt] : i \in 1..Len(n.upd)},
              !.sf = @ \/ n.sfCalls # <<>>,
              !.marked = IF n.scrollTarget # c.scrollTarget THEN n.scrollTarget ELSE @,
              !.byPress = IF n.focus # NoID /\
                             (n.focus = @ \/
                              \E i \in 1..Len(n.upd) : n.upd[i].id = n.focus /\ n.upd[i].gain)
                          THEN n.focus ELSE NoID]

\* the observations after the call of a header or tree node wid that left
\* the Context n: res is what the call returned (lines 383-386), the click is
\* the test of line 340 and the callback ran when the identity of the node
\* was pushed (line 403)
ObserveHeader(n, op, wid, pre, res, istreenode) ==
  [Observe(n, op, {wid}) EXCEPT
     !.hdr = [x \in DOMAIN @ \cup {wid} |->
                IF x = wid
                THEN [pre |-> pre, rep |-> res,
                      clk |-> n.mousePressed = {mouseLeft} /\ n.focus = wid,
                      tree |-> istreenode,
                      body |-> Len(n.idStack) > Len(c.idStack),
                      fresh |-> wid \notin obs.clicked]
                ELSE @[x]],
     !.clicked = IF n.mousePressed = {mouseLeft} /\ n.focus = wid
                 THEN @ \cup {wid} ELSE @]

\* the observations after the call of a slider or number field bound to the
\* variable ptr that left the Context n
ObserveNumber(n, op, ptr) ==
  [Observe(n, op, {id(c, ptr)}) EXCEPT
     !.num = [ptr |-> ptr, id |-> id(c, ptr), kind |-> op,
              editing |-> numberEditing(idCtx(c, ptr), c.heap[ptr], id(c, ptr)),
              ended |-> /\ numberEditing(idCtx(c, ptr), c.heap[ptr], id(c, ptr))
                        /\ (keyReturn \in c.keyPressed \/ n.focus # id(c, ptr))]]

\* the variables of the caller stay whole numbers of up to three digits
InRange(n) == \A p \in DOMAIN n.heap : n.heap[p] \in (0 - MaxValue)..MaxValue

InFrame == phase = "frame" /\ obs.decls < bnd.decls
\* a control asks the layout and the clip stack of a container for its place
InContainer == InFrame /\ Len(c.layoutStack) > 0

Begin(in) ==
  /\ phase = "idle"
  /\ c.tick < bnd.frames
  /\ c' = begin(Fresh, in)
  /\ phase' = "frame"
  /\ obs' = [Obs0 EXCEPT !.op = "begin", !.focus0 = c.focus,
                         !.byPress = obs.byPress, !.byPress0 = obs.byPress,
                         !.input = in, !.prev = obs.hdr, !.clicked = obs.clicked]
  /\ UNCHANGED <<callStack, bnd>>

\* Update has called f; f declares a window
Window(title, rect, opt) ==
  /\ InFrame
  /\ id(c, title) \notin obs.declared
  /\ ~windowReturnsEarly(c, title, opt) => Len(callStack) < bnd.depth
  /\ c' = window(Fresh, title, rect, opt)
  /\ callStack' = IF windowReturnsEarly(c, title, opt) THEN callStack
                  ELSE Append(callStack, "window")
  /\ obs' = [Observe(c', IF windowReturnsEarly(c, title, opt) THEN "skip" ELSE "window",
                     {id(c, title)})
               EXCEPT !.under = IF ~windowReturnsEarly(c, title, opt) /\
                                   PtIn(c.mousePos,
                                        IF HasContainer(c, id(c, title)) /\
                                           Dx(c.containers[id(c, title)].Rect) # 0
                                        THEN c.containers[id(c, title)].Rect ELSE rect)
                                THEN @ \cup {id(c, title)} ELSE @]
  /\ UNCHANGED <<phase, bnd>>

OpenPopupCall(name) ==
  /\ InFrame
  /\ c' = OpenPopup(Fresh, name)
  /\ obs' = [Observe(c', "openpopup", {}) EXCEPT !.opened = @ \cup {id(c, name)}]
  /\ UNCHANGED <<callStack, phase, bnd>>

Panel(name, opt) ==
  /\ InContainer
  /\ Len(callStack) < bnd.depth
  /\ id(c, name) \notin obs.declared
  /\ c' = panel(Fresh, name, opt)
  /\ callStack' = Append(callStack, "panel")
  /\ obs' = Observe(c', "panel", {id(c, name)})
  /\ UNCHANGED <<phase, bnd>>

Button(label, opt) ==
  /\ InContainer
  /\ label # "" => id(c, label) \notin obs.declared
  /\ c' = buttonEx(Fresh, label, opt)
  /\ obs' = Observe(c', "button", IF label = "" THEN {} ELSE {id(c, label)})
  /\ UNCHANGED <<callStack, phase, bnd>>

TextCall(n) ==
  /\ InContainer
  /\ c' = Text(Fresh, n)
  /\ obs' = Observe(c', "text", {})
  /\ UNCHANGED <<callStack, phase, bnd>>

TreeNode(label, opt) ==
  /\ InContainer
  /\ id(c, label) \notin obs.declared
  /\ headerExpanded(c, label, opt) => Len(callStack) < bnd.depth
  /\ c' = treeNode(Fresh, label, opt)
  /\ callStack' = IF headerExpanded(c, label, opt) THEN Append(callStack, "tree")
                  ELSE callStack
  /\ obs' = ObserveHeader(c', "tree", id(c, label), OptExpanded \in opt,
                           headerExpanded(c, label, opt), TRUE)
  /\ UNCHANGED <<phase, bnd>>

\* f declares a header; what it reports tells f whether to declare the rows
\* below it
Header(label, opt) ==
  /\ InContainer
  /\ id(c, label) \notin obs.declared
  /\ c' = HeaderEx(Fresh, label, opt)
  /\ obs' = ObserveHeader(c', "header", id(c, label), OptExpanded \in opt,
                           headerExpanded(c, label, opt), FALSE)
  /\ UNCHANGED <<callStack, phase, bnd>>

\* f declares a slider bound to the variable ptr
Slider(ptr, low, high, step, opt) ==
  /\ InContainer
  /\ id(c, ptr) \notin obs.declared
  /\ c' = SliderEx(Fresh, ptr, low, high, step, opt)
  /\ InRange(c')
  /\ obs' = ObserveNumber(c', "slider", ptr)
  /\ UNCHANGED <<callStack, phase, bnd>>

\* f declares a number field bound to the variable ptr
Number(ptr, step, opt) ==
  /\ InContainer
  /\ id(c, ptr) \notin obs.declared
  /\ c' = NumberEx(Fresh, ptr, step, opt)
  /\ InRange(c')
  /\ obs' = ObserveNumber(c', "number", ptr)
  /\ UNCHANGED <<callStack, phase, bnd>>

\* the callback of the innermost declaration returns
Return ==
  /\ phase = "frame"
  /\ callStack # <<>>
  /\ c' = CASE Top(callStack) = "window" -> windowDeferred(Fresh)
            [] Top(callStack) = "panel" -> panelDeferred(Fresh)
            [] Top(callStack) = "tree" -> treeNodeDeferred(Fresh)
  /\ callStack' = Pop(callStack)
  /\ obs' = [obs EXCEPT !.op = "return"]
  /\ UNCHANGED <<phase, bnd>>

\* f calls the exported SetFocus
SetFocusCall(wid) ==
  /\ InFrame
  /\ c' = SetFocus(Fresh, wid)
  /\ obs' = [Observe(c', "setfocus", {}) EXCEPT !.sfUser = TRUE]
  /\ UNCHANGED <<callStack, phase, bnd>>

\* f hides or shows a window: c.Container(name).Open = open
SetOpen(name, open) ==
  /\ InFrame
  /\ c' = [Container(Fresh, name) EXCEPT !.containers[id(c, name)].Open = open]
  /\ obs' = Observe(c', "setopen", {})
  /\ UNCHANGED <<callStack, phase, bnd>>

\* end runs: when f has returned, or with declarations still open
End ==
  /\ phase = "frame"
  /\ c' = end(Fresh)
  /\ phase' = IF c'.panic THEN "halted" ELSE "idle"
  /\ obs' = [obs EXCEPT !.op = "end",
                        !.byPress = IF c'.focus = @ /\ ~obs.sfUser /\
                                       (\E t \in obs.touched : t.id = @)
                                    THEN @ ELSE NoID]
  /\ UNCHANGED <<callStack, bnd>>


----------------------------------------------------------------------------
(* The declarations and inputs the behaviours draw from.                   *)

WinRect(title) ==
  CASE title = "A" -> Rect(0, 0, 100, 100)
    [] title = "B" -> Rect(50, 0, 150, 100)
    [] title = "S" -> Rect(0, 0, 100, 24)
    [] OTHER -> Rect(0, 50, 150, 150)

Input(p, d) == [pos |-> p, down |-> d, keys |-> {}, text |-> <<>>, wheel |-> Pt(0, 0)]

----------------------------------------------------------------------------
(* SpecZ: windows and popups in any order and nesting, a pointer that      *)
(* presses on them: z-order and the replay of the command buffer.          *)

ZWinOpts == {{OptNoResize, OptNoScroll, OptNoClose}}
ZInputs ==
  {Input(p, d) : p \in {Pt(10, 10), Pt(60, 35), Pt(120, 35)}, d \in {{}, {mouseLeft}}}

InitZ == InitWith([frames |-> ZFrames, decls |-> ZDecls, depth |-> ZDepth])

NextZ ==
  \/ \E in \in ZInputs : Begin(in)
  \/ \E t \in {"A", "B"}, o \in ZWinOpts : Window(t, WinRect(t), o)
  \/ Window("P", ZR, PopupOpt)
  \/ OpenPopupCall("P")
  \/ Return
  \/ End

SpecZ == InitZ /\ [][NextZ]_vars


----------------------------------------------------------------------------
(* SpecS: every kind of declaration, nested; windows and popups that       *)
(* return early; end run with declarations still open.                     *)

SInputs == {Input(Pt(10, 35), {}), Input(Pt(10, 35), {mouseLeft})}

InitS == InitWith([frames |-> SFrames, decls |-> SDecls, depth |-> SDepth])

NextS ==
  \/ \E in \in SInputs : Begin(in)
  \/ Window("A", WinRect("A"), {OptNoResize, OptNoClose})
  \/ Window("P", ZR, PopupOpt)
  \/ OpenPopupCall("P")
  \/ SetOpen("A", FALSE)
  \/ Panel("N", {})
  \/ Button("x", {})
  \/ TextCall(2)
  \/ TreeNode("t", {OptExpanded})
  \/ SetFocusCall(<<"A", "x">>)
  \/ Return
  \/ End

SpecS == InitS /\ [][NextS]_vars


----------------------------------------------------------------------------
(* SpecF: one window with two buttons, x on the first row and y on the     *)
(* second (y is declared after x, in frames that declare x); x is declared *)
(* plain, holding focus or not interacting, anew in every frame.  The      *)
(* pointer is on the first row, on the second or below both, with no       *)
(* button, the left or the right one held: hover and focus over several    *)
(* frames.                                                                 *)

FWinOpt == {OptNoTitle, OptNoResize, OptNoScroll, OptNoClose}
FInputs ==
  {Input(p, d) : p \in {Pt(10, 10), Pt(10, 35), Pt(10, 80)},
                 d \in {{}, {mouseLeft}, {mouseRight}}}

InitF == InitWith([frames |-> FFrames, decls |-> FDecls, depth |-> FDepth])

NextF ==
  \/ \E in \in FInputs : Begin(in)
  \/ Window("A", WinRect("A"), FWinOpt)
  \/ \E o \in {{}, {OptHoldFocus}, {OptNoInteract}} : Button("x", o)
  \/ (<<"A", "x">> \in obs.declared /\ Button("y", {}))
  \/ SetFocusCall(<<"A", "x">>)
  \/ Return
  \/ End

SpecF == InitF /\ [][NextF]_vars


----------------------------------------------------------------------------
(* SpecH: two overlapping windows, side by side or one declared inside the *)
(* other, a panel and a button inside them, a popup opened at the pointer; *)
(* the pointer is inside the first window only, inside both or inside the  *)
(* second only: which widget may take hover.                               *)

HWinOpt == {OptNoResize, OptNoScroll, OptNoClose}
HInputs == {Input(p, {}) : p \in {Pt(10, 35), Pt(60, 35), Pt(120, 35)}}

InitH == InitWith([frames |-> HFrames, decls |-> HDecls, depth |-> HDepth])

NextH ==
  \/ \E in \in HInputs : Begin(in)
  \/ \E t \in {"A", "B"} : Window(t, WinRect(t), HWinOpt)
  \/ Window("P", ZR, PopupOpt)
  \/ OpenPopupCall("P")
  \/ Panel("N", {OptNoScroll})
  \/ Button("x", {})
  \/ Return
  \/ End

SpecH == InitH /\ [][NextH]_vars


----------------------------------------------------------------------------
(* SpecN: one window with a title bar, a close button and a resize handle, *)
(* declared anew in every frame with or without no-interact, and a button  *)
(* that does not interact inside it; the pointer is on the title bar, on   *)
(* the close button or on the resize handle, with the left button held or  *)
(* not.                                                                    *)

NWinOpts == {{OptNoScroll}, {OptNoScroll, OptNoInteract}}
NInputs ==
  {Input(p, d) : p \in {Pt(10, 10), Pt(90, 10), Pt(90, 90)}, d \in {{}, {mouseLeft}}}

InitN == InitWith([frames |-> NFrames, decls |-> NDecls, depth |-> NDepth])

NextN ==
  \/ \E in \in NInputs : Begin(in)
  \/ \E o \in NWinOpts : Window("A", WinRect("A"), o)
  \/ Button("x", {OptNoInteract})
  \/ Return
  \/ End

SpecN == InitN /\ [][NextN]_vars


----------------------------------------------------------------------------
(* SpecP: a window, a popup that is opened at the pointer, declared inside *)
(* the window or beside it, or only referred to, and a panel inside        *)
(* either; the pointer is inside the window or outside of it, with the     *)
(* left button held or not: which containers exist, which are open, and    *)
(* their z-indices.                                                        *)

PWinOpt == {OptNoTitle, OptNoResize, OptNoScroll}
PInputs == {Input(p, d) : p \in {Pt(10, 10), Pt(120, 35)}, d \in {{}, {mouseLeft}}}

InitP == InitWith([frames |-> PFrames, decls |-> PDecls, depth |-> PDepth])

NextP ==
  \/ \E in \in PInputs : Begin(in)
  \/ Window("A", WinRect("A"), PWinOpt)
  \/ Window("P", ZR, PopupOpt)
  \/ OpenPopupCall("P")
  \/ Panel("N", {OptNoScroll})
  \/ Return
  \/ End

SpecP == InitP /\ [][NextP]_vars


----------------------------------------------------------------------------
(* SpecW: a low window that scrolls, with a panel that scrolls and a       *)
(* button inside; from the second frame on their content is higher than    *)
(* their body and they show a scrollbar.  The pointer is over the panel    *)
(* and the window, over the window only or outside of both; the wheel is   *)
(* turned, a button and a key are held and text is typed, or not.          *)

WWinOpt == {OptNoTitle, OptNoResize, OptNoClose}
WInput(p, d, k, t, w) == [pos |-> p, down |-> d, keys |-> k, text |-> t, wheel |-> w]
WInputs ==
  {WInput(Pt(10, 10), {}, {}, <<>>, Pt(0, 0)),
   WInput(Pt(10, 10), {mouseRight}, {"k"}, <<"t">>, Pt(0, 3)),
   WInput(Pt(80, 10), {}, {"k"}, <<>>, Pt(0, 3)),
   WInput(Pt(120, 100), {mouseRight}, {}, <<"t">>, Pt(2, 3))}

InitW == InitWith([frames |-> WFrames, decls |-> WDecls, depth |-> WDepth])

NextW ==
  \/ \E in \in WInputs : Begin(in)
  \/ Window("S", WinRect("S"), WWinOpt)
  \/ Panel("N", {})
  \/ Button("x", {})
  \/ Return
  \/ End

SpecW == InitW /\ [][NextW]_vars


----------------------------------------------------------------------------
(* SpecT: one window with a tree node t declared pre-expanded on the first *)
(* row, and below it or inside it a tree node u and a header h declared    *)
(* collapsed; the pointer is on the first row or on the second, with no    *)
(* button, the left or the right one held: what headers report over        *)
(* several frames.                                                         *)

TWinOpt == {OptNoTitle, OptNoResize, OptNoScroll, OptNoClose}
TInputs ==
  {Input(p, d) : p \in {Pt(10, 10), Pt(10, 35)}, d \in {{}, {mouseLeft}, {mouseRight}}}

InitT == InitWith([frames |-> TFrames, decls |-> TDecls, depth |-> TDepth])

NextT ==
  \/ \E in \in TInputs : Begin(in)
  \/ Window("A", WinRect("A"), TWinOpt)
  \/ TreeNode("t", {OptExpanded})
  \/ TreeNode("u", {})
  \/ Header("h", {})
  \/ Return
  \/ End

SpecT == InitT /\ [][NextT]_vars


----------------------------------------------------------------------------
(* SpecE: one window with a slider bound to s and a number field bound to  *)
(* n, one on the first row and one on the second, or one of them alone.    *)
(* The pointer rests on the first row; it shift-clicks there, a digit or a *)
(* letter is typed, backspace or Return is pressed, or the pointer presses *)
(* on the second row and is held there: the edit mode from its start to    *)
(* its end.                                                                *)

EWinOpt == {OptNoTitle, OptNoResize, OptNoScroll, OptNoClose}
EInputs ==
  {WInput(Pt(10, 10), {}, {}, <<>>, Pt(0, 0)),
   WInput(Pt(10, 10), {mouseLeft}, {keyShift}, <<>>, Pt(0, 0)),
   WInput(Pt(10, 10), {}, {}, <<"7">>, Pt(0, 0)),
   WInput(Pt(10, 10), {}, {}, <<"a">>, Pt(0, 0)),
   WInput(Pt(10, 10), {}, {keyBackspace}, <<>>, Pt(0, 0)),
   WInput(Pt(10, 10), {}, {keyReturn}, <<>>, Pt(0, 0)),
   WInput(Pt(60, 35), {mouseLeft}, {}, <<>>, Pt(0, 0))}

InitE == InitWith([frames |-> EFrames, decls |-> EDecls, depth |-> EDepth])

NextE ==
  \/ \E in \in EInputs : Begin(in)
  \/ Window("A", WinRect("A"), EWinOpt)
  \/ Slider("s", SliderLow, SliderHigh, SliderStep, {})
  \/ Number("n", NumberStep, {})
  \/ Return
  \/ End

SpecE == InitE /\ [][NextE]_vars

----------------------------------------------------------------------------
(* Replay of the command buffer, as the renderer walks it: from index 0,   *)
(* a jump continues at its destination, any other command is executed,     *)
(* until the index is the length of the buffer.                            *)

\* the indices executed from index i on; ok is false when the walk leaves
\* the buffer or does not end within fuel steps
RECURSIVE replayFrom(_, _, _)
replayFrom(list, i, fuel) ==
  IF i = Len(list) THEN [ok |-> TRUE, seq |-> <<>>]
  ELSE IF fuel = 0 \/ i < 0 \/ i > Len(list) THEN [ok |-> FALSE, seq |-> <<>>]
  ELSE IF list[i + 1].typ = "jump" THEN replayFrom(list, list[i + 1].dst, fuel - 1)
  ELSE LET rest == replayFrom(list, i + 1, fuel - 1)
       IN [ok |-> rest.ok, seq |-> <<i>> \o rest.seq]

Replay(ctx) == replayFrom(ctx.commandList, 0, Len(ctx.commandList) + 1)

\* end has run and returned
FrameEnded == phase = "idle" /\ obs.op = "end"
\* the step is a run of end that returns
EndStep == phase = "frame" /\ phase' = "idle"

ZOf(ctx, cnt) == ctx.containers[cnt].ZIndex

----------------------------------------------------------------------------
(* C1: after End, for any windows declared in the frame (any order, nested *)
(* or not, after any presses and popups of earlier frames), the replay of  *)
(* the command buffer from index 0 ends at the end of the buffer, executes *)
(* every draw command of the buffer exactly once and executes them in      *)
(* non-decreasing z-index order of the windows they belong to.             *)
C1_ReplayInZOrder ==
  FrameEnded =>
    LET r == Replay(c)
        draws == {i \in 0..(Len(c.commandList) - 1) : c.commandList[i + 1].typ # "jump"}
    IN /\ r.ok
       /\ \A i \in draws : Cardinality({k \in 1..Len(r.seq) : r.seq[k] = i}) = 1
       /\ \A k \in 1..Len(r.seq) : r.seq[k] \in draws
       /\ \A j, k \in 1..Len(r.seq) :
            j < k => ZOf(c, c.commandList[r.seq[j] + 1].root)
                       <= ZOf(c, c.commandList[r.seq[k] + 1].root)

\* three windows were declared, one inside another, and the window declared
\* first is not the lowest: the replay order differs from the call order
C1_Witness ==
  /\ FrameEnded
  /\ Len(c.rootList) = 3
  /\ \E a, b \in DOMAIN c.containers :
       /\ a # b
       /\ \E i, j \in 1..3 : c.rootList[i] = a /\ c.rootList[j] = b
       /\ c.containers[a].HeadIdx < c.containers[b].HeadIdx
       /\ c.containers[b].TailIdx < c.containers[a].TailIdx
       /\ ZOf(c, b) < ZOf(c, a)
  /\ c.containers[c.rootList[1]].HeadIdx # 0

----------------------------------------------------------------------------
(* C2: when the pointer was pressed in the frame, and the window with the  *)
(* highest z-index among those that were declared open with the pointer    *)
(* inside their rectangle, or were opened as a popup at the pointer, does  *)
(* not hold the greatest z-index, End gives it a z-index above every other *)
(* container's; if it was declared in the frame it is the last window of   *)
(* the replay: its tail jump leads to the end of the buffer.               *)

\* the windows under the pointer in this frame
Candidates == obs.under \cup obs.opened
\* the candidate with the highest z-index
Highest(ctx) == CHOOSE h \in Candidates : \A k \in Candidates : ZOf(ctx, k) <= ZOf(ctx, h)
InRootList(ctx, cnt) == \E i \in 1..Len(ctx.rootList) : ctx.rootList[i] = cnt

C2_Pre ==
  /\ c.mousePressed # {}
  /\ Candidates # {}
  /\ \E k \in DOMAIN c.containers : ZOf(c, k) > ZOf(c, Highest(c))

C2_PressBringsToFront ==
  [][(EndStep /\ C2_Pre) =>
       LET h == Highest(c)
       IN /\ \A k \in DOMAIN c'.containers : k # h => ZOf(c', k) < ZOf(c', h)
          /\ InRootList(c, h) =>
               /\ Top(c'.rootList) = h
               /\ c'.commandList[c'.containers[h].TailIdx + 1].dst = Len(c'.commandList)]_vars

\* A was declared before B, the press was inside A only, and A is now above B
C2_Witness ==
  /\ FrameEnded
  /\ Len(c.rootList) = 2
  /\ c.rootList[1] = <<"B">> /\ c.rootList[2] = <<"A">>
  /\ c.containers[<<"A">>].HeadIdx < c.containers[<<"B">>].HeadIdx
  /\ obs.under = {<<"A">>}
  /\ c.mouseDown # {} /\ c.tick = 1

----------------------------------------------------------------------------
(* C3: in a frame built from window, Popup, panel, treeNode, Text and      *)
(* control calls, nested in any way, with windows and popups that return   *)
(* early because they are closed or absent, all four stacks (id, clip,     *)
(* container, layout) are empty whenever every callback has returned, so   *)
(* the checks of End pass: End halts only with a callback still running.   *)

StacksEmpty(ctx) ==
  /\ Len(ctx.idStack) = 0
  /\ Len(ctx.clipStack) = 0
  /\ Len(ctx.containerStack) = 0
  /\ Len(ctx.layoutStack) = 0

C3_StacksBalanced ==
  /\ (phase = "frame" /\ callStack = <<>>) => StacksEmpty(c)
  /\ phase = "halted" => callStack # <<>>
  /\ FrameEnded => StacksEmpty(c)

\* End has returned from a frame with a window, a panel, a tree node and a
\* text in it and a window or popup that returned early
C3_Witness ==
  /\ FrameEnded
  /\ {"window", "panel", "tree", "text", "skip"} \subseteq obs.kinds
  /\ StacksEmpty(c)

----------------------------------------------------------------------------
(* C4: when End runs with one of the four stacks non-empty it halts, and   *)
(* it has then changed neither focus nor the keep-focus flag, no           *)
(* container (scroll offset, z-index), not the z-order counter, none of    *)
(* the input of the frame, no jump destination and not the root list.      *)

----------------------------------------------------------------------------
(* Observations of the frame that the focus properties speak about.        *)

\* updateControl was called for w in this frame
Touched(w) == \E t \in obs.touched : t.id = w
\* a button was pressed in this frame and the pointer was not over w
PressElsewhere(w) ==
  c.mousePressed # {} /\ \E t \in obs.touched : t.id = w /\ ~t.over
\* no button is held in this frame and w was declared without hold-focus
ReleaseWithoutHold(w) ==
  c.mouseDown = {} /\ \E t \in obs.touched : t.id = w /\ OptHoldFocus \notin t.opt
\* the calls of updateControl made by the last step
Updates == {c.upd[i] : i \in 1..Len(c.upd)}

----------------------------------------------------------------------------
(* C5: a widget that took focus by a press and is declared in a frame      *)
(* still has focus when End of that frame has returned, unless a button    *)
(* was pressed in the frame while the pointer was not over it, or no       *)
(* button was held and it was declared without hold-focus (or the          *)
(* callback called SetFocus).                                              *)
C5_FocusSticky ==
  [][(/\ EndStep
      /\ obs.focus0 # NoID
      /\ obs.byPress0 = obs.focus0
      /\ Touched(obs.focus0)
      /\ ~obs.sfUser
      /\ ~PressElsewhere(obs.focus0)
      /\ ~ReleaseWithoutHold(obs.focus0)) => c'.focus = obs.focus0]_vars

----------------------------------------------------------------------------
(* C6: when an interacting widget that has focus is updated in a frame in  *)
(* which a button was pressed with the pointer outside its rectangle, it   *)
(* does not have focus after the update, with or without hold-focus and    *)
(* whatever the hover identity was.                                        *)
C6_PressOutsideClearsFocus ==
  \A e \in Updates :
    (e.focus0 = e.id /\ e.pressed # {} /\ ~e.inRect /\ OptNoInteract \notin e.opt)
      => e.focus1 # e.id

----------------------------------------------------------------------------
(* C7, as stated: an update made while a button is held leaves the hover   *)
(* identity as it was.                                                     *)
C7_HoverFrozenWhileDown ==
  \A e \in Updates : e.down # {} => e.hover1 = e.hover0

(* C7, amended: an update made while a button is held never makes a widget *)
(* the hover identity; it changes the hover identity only by clearing it,  *)
(* when the updated widget is the hover identity and the pointer is not    *)
(* over it.                                                                *)
C7_HoverNotAssignedWhileDown ==
  \A e \in Updates :
    e.down # {} =>
      \/ e.hover1 = e.hover0
      \/ e.hover1 = NoID /\ e.hover0 = e.id /\ ~e.over

\* the hover identity was cleared by an update made with a button held
C7_Witness ==
  \E e \in Updates : e.down # {} /\ e.hover0 = e.id /\ e.hover1 = NoID /\ ~e.over

----------------------------------------------------------------------------
(* C8: an update makes a widget the hover identity only if the pointer is  *)
(* inside its rectangle and inside the current clip rectangle and the      *)
(* nearest root container around it is the hover root; so a widget of a    *)
(* window that is not the hover root, in it or in panels of it, does not   *)
(* take hover, nor does a widget of a window declared inside the hover     *)
(* root.                                                                   *)
C8_HoverNeedsHoverRoot ==
  \A e \in Updates :
    (e.hover1 = e.id /\ e.hover0 # e.id) =>
      /\ e.inRect
      /\ e.inClip
      /\ e.root # NoCnt
      /\ e.root = e.hoverRoot

\* a button in a panel of the hover root has taken hover
C8_Witness ==
  \E e \in Updates :
    /\ e.hover1 = e.id /\ e.hover0 # e.id
    /\ Len(e.id) = 3
    /\ e.root = e.hoverRoot

----------------------------------------------------------------------------
(* C9, as stated: a focused widget declared without hold-focus does not    *)
(* have focus after an update made while no button is held.                *)
C9_ReleaseClearsFocus ==
  \A e \in Updates :
    (e.focus0 = e.id /\ e.down = {} /\ OptHoldFocus \notin e.opt) => e.focus1 # e.id

(* C9, amended: a focused widget declared without hold-focus and without   *)
(* no-interact does not have focus after an update made while no button    *)
(* is held; one declared with hold-focus has focus after that update, and  *)
(* after End of a frame in which no button was held, every declaration of  *)
(* it held focus and the callback did not call SetFocus.                   *)
C9_ReleaseClearsFocusUnlessHeld ==
  [][/\ \A i \in 1..Len(c'.upd) :
          (c'.upd[i].focus0 = c'.upd[i].id /\ c'.upd[i].down = {}) =>
             /\ (OptHoldFocus \notin c'.upd[i].opt /\ OptNoInteract \notin c'.upd[i].opt)
                   => c'.upd[i].focus1 # c'.upd[i].id
             /\ OptHoldFocus \in c'.upd[i].opt => c'.upd[i].focus1 = c'.upd[i].id
     /\ (/\ EndStep
         /\ obs.focus0 # NoID
         /\ c.mouseDown = {}
         /\ Touched(obs.focus0)
         /\ \A t \in obs.touched : t.id = obs.focus0 => OptHoldFocus \in t.opt
         /\ ~obs.sfUser) => c'.focus = obs.focus0]_vars

\* a plain widget has lost focus in an update made with no button held, in
\* a frame that began with it focused by a press
C9_Witness ==
  /\ phase = "frame"
  /\ obs.byPress0 # NoID
  /\ \E e \in Updates :
       /\ e.id = obs.byPress0
       /\ e.focus0 = e.id /\ e.down = {} /\ e.opt = {}
       /\ e.focus1 = NoID

----------------------------------------------------------------------------
----------------------------------------------------------------------------
(* C11: an update of a control declared with no-interact changes neither  *)
(* the hover identity nor the focus identity, whatever the pointer and the *)
(* buttons; and a window declared with no-interact is, after its           *)
(* declaration, where it was, as large as it was and as open as it was:    *)
(* its title bar, close button and resize handle neither move, close nor   *)
(* resize it.                                                              *)

\* the rectangle the window cnt has when its declaration begins
RectBefore(cnt) ==
  IF HasContainer(c, cnt) /\ Dx(c.containers[cnt].Rect) # 0
  THEN c.containers[cnt].Rect ELSE WinRect(cnt[1])

\* the windows whose title bar, close button or handle the step updated
\* with no-interact
InertWindows ==
  {SubSeq(c'.upd[i].id, 1, Len(c'.upd[i].id) - 1) :
     i \in {k \in 1..Len(c'.upd) :
              /\ OptNoInteract \in c'.upd[k].opt
              /\ c'.upd[k].id[Len(c'.upd[k].id)] \in {"!title", "!close", "!resize"}}}

C11_NoInteractInert ==
  [][/\ \A i \in 1..Len(c'.upd) :
          OptNoInteract \in c'.upd[i].opt =>
            /\ c'.upd[i].hover1 = c'.upd[i].hover0
            /\ c'.upd[i].focus1 = c'.upd[i].focus0
     /\ \A w \in InertWindows :
          /\ c'.containers[w].Rect = RectBefore(w)
          /\ c'.containers[w].Open]_vars

----------------------------------------------------------------------------
(* Lookups made with the closed flag, in any state the program reaches:    *)
(* the identities looked up and the option sets that hold the flag.        *)

LookupIds == {<<"A">>, <<"P">>, <<"Q">>, <<"A", "N">>, <<"A", "P">>}
ClosedOpts == {{OptClosed}, PopupOpt}
IsOpen(ctx, cid) == HasContainer(ctx, cid) /\ ctx.containers[cid].Open

(* C12, as stated: a lookup made with the closed flag returns a container  *)
(* exactly when one with that identity exists and is open, nil otherwise,  *)
(* and leaves the containers and the z-order counter as they were.         *)
C12_ClosedLookupOnlyOpen ==
  \A cid \in LookupIds, o \in ClosedOpts :
    /\ (container(c, cid, o) # NoCnt) <=> IsOpen(c, cid)
    /\ containerCtx(c, cid, o).containers = c.containers
    /\ containerCtx(c, cid, o).lastZIndex = c.lastZIndex

(* C12, amended: a lookup made with the closed flag returns the container  *)
(* with that identity when one exists, open or closed, and nil when none   *)
(* exists; it creates no container, opens none and leaves the z-order      *)
(* counter as it was.                                                      *)
C12_ClosedLookupNeverCreates ==
  \A cid \in LookupIds, o \in ClosedOpts :
    /\ container(c, cid, o) = IF HasContainer(c, cid) THEN cid ELSE NoCnt
    /\ containerCtx(c, cid, o).containers = c.containers
    /\ containerCtx(c, cid, o).lastZIndex = c.lastZIndex

\* Popup has looked up a popup that exists and is closed, and one that was
\* never opened is looked up in a frame that has created a window
C12_Witness ==
  /\ phase = "frame" /\ obs.op = "skip"
  /\ HasContainer(c, <<"P">>) /\ ~c.containers[<<"P">>].Open
  /\ container(c, <<"P">>, PopupOpt) = <<"P">>
  /\ ~HasContainer(c, <<"Q">>) /\ container(c, <<"Q">>, PopupOpt) = NoCnt
  /\ c.lastZIndex > 1

----------------------------------------------------------------------------
(* Popups: the containers named "P" in any scope.                          *)

IsPopupId(x) == Len(x) > 0 /\ x[Len(x)] = "P"
\* the identities the step may speak about
KnownIds == DOMAIN c.containers \cup obs'.declared
\* the step is the declaration Popup of p
DeclaresPopup(p) == p \in obs'.declared /\ p \notin obs.declared
\* the step is the call OpenPopup of p
OpensPopup(p) == obs'.op = "openpopup" /\ c'.hoverRoot = p

(* C13: a popup that was never opened or is closed stays closed in every   *)
(* step that is not OpenPopup of it, and its declaration by Popup, in      *)
(* whatever frame, does not run its body, pushes nothing on the four       *)
(* stacks, emits no command, does not add it to the root list and changes  *)
(* no container.                                                           *)
C13_ClosedPopupStaysClosed ==
  [][\A p \in KnownIds :
       (IsPopupId(p) /\ ~IsOpen(c, p)) =>
          /\ ~OpensPopup(p) => ~IsOpen(c', p)
          /\ DeclaresPopup(p) =>
               /\ callStack' = callStack
               /\ c'.idStack = c.idStack /\ c'.clipStack = c.clipStack
               /\ c'.containerStack = c.containerStack
               /\ c'.layoutStack = c.layoutStack
               /\ c'.commandList = c.commandList /\ c'.rootList = c.rootList
               /\ c'.containers = c.containers
               /\ c'.nextHoverRoot = c.nextHoverRoot]_vars

\* in the third frame Popup has declared a popup that exists and was closed
\* in an earlier frame, next to a window that was declared
C13_Witness ==
  /\ phase = "frame" /\ obs.op = "skip" /\ c.tick = 3
  /\ <<"P">> \in obs.declared
  /\ HasContainer(c, <<"P">>) /\ ~c.containers[<<"P">>].Open
  /\ Len(c.commandList) > 0

----------------------------------------------------------------------------
(* C14: a step closes an open popup exactly when it is the declaration of  *)
(* the popup, a button was pressed in the frame and the popup is not the   *)
(* hover root; OpenPopup leaves the popup open and makes it the hover      *)
(* root, so that its declaration after OpenPopup, in a frame with a press, *)
(* does not close it.                                                      *)
C14_PopupClosesOnPressElsewhere ==
  [][\A p \in KnownIds :
       IsPopupId(p) =>
          /\ IsOpen(c, p) =>
               (~IsOpen(c', p) <=>
                  (DeclaresPopup(p) /\ c.mousePressed # {} /\ c.hoverRoot # p))
          /\ OpensPopup(p) => (IsOpen(c', p) /\ c'.nextHoverRoot = p)]_vars

\* the declaration of an open popup has closed it: a button was pressed
\* while another container, or none, was the hover root
C14_Witness ==
  /\ phase = "frame" /\ obs.op = "window"
  /\ callStack # <<>> /\ Len(c.containerStack) > 0
  /\ CurrentContainer(c) = <<"P">>
  /\ ~c.containers[<<"P">>].Open
  /\ c.mousePressed # {} /\ c.hoverRoot # <<"P">>

----------------------------------------------------------------------------
(* C15: the z-order counter never decreases; in every state no two         *)
(* containers (windows, popups, panels) have the same z-index and none has *)
(* a z-index above the counter; a step that advances the counter leaves    *)
(* one container with the z-index of the counter, above every other        *)
(* container, and the z-index of every other container as it was; and      *)
(* bringToFront, for whatever container, puts it above every other one.    *)
C15_ZIndexDistinct ==
  [][/\ c'.lastZIndex >= c.lastZIndex
     /\ \A a, b \in DOMAIN c'.containers :
          /\ ZOf(c', a) <= c'.lastZIndex
          /\ a # b => ZOf(c', a) # ZOf(c', b)
     /\ c'.lastZIndex > c.lastZIndex =>
          \E k \in DOMAIN c'.containers :
            /\ ZOf(c', k) = c'.lastZIndex
            /\ \A j \in DOMAIN c'.containers \ {k} :
                 /\ ZOf(c', j) < ZOf(c', k)
                 /\ j \in DOMAIN c.containers => ZOf(c', j) = ZOf(c, j)
     /\ \A k \in DOMAIN c'.containers :
          /\ bringToFront(c', k).lastZIndex > c'.lastZIndex
          /\ \A j \in DOMAIN c'.containers \ {k} :
               ZOf(bringToFront(c', k), j) < ZOf(bringToFront(c', k), k)]_vars

\* a window, a panel created after it and a popup exist; a press has
\* brought the window above the panel, and the popup was opened after that
C15_Witness ==
  /\ FrameEnded
  /\ {<<"A">>, <<"A", "N">>, <<"P">>} \subseteq DOMAIN c.containers
  /\ ZOf(c, <<"A">>) > ZOf(c, <<"A", "N">>)
  /\ ZOf(c, <<"P">>) = c.lastZIndex
  /\ c.lastZIndex >= 5

----------------------------------------------------------------------------
(* The walk of the renderer with the jumps it passes: the indices visited  *)
(* from index i on, jumps included; ok is false when the walk leaves the   *)
(* buffer or has not ended after fuel entries.                             *)

RECURSIVE walkFrom(_, _, _)
walkFrom(list, i, fuel) ==
  IF i = Len(list) THEN [ok |-> TRUE, seq |-> <<>>]
  ELSE IF fuel = 0 \/ i < 0 \/ i > Len(list) THEN [ok |-> FALSE, seq |-> <<>>]
  ELSE LET rest == walkFrom(list, IF list[i + 1].typ = "jump" THEN list[i + 1].dst
                                  ELSE i + 1, fuel - 1)
       IN [ok |-> rest.ok, seq |-> <<i>> \o rest.seq]

Walk(ctx) == walkFrom(ctx.commandList, 0, Len(ctx.commandList) + 1)

(* C16: after End the walk from index 0 ends at the index equal to the     *)
(* length of the buffer; every jump it visits has a destination from 0 to  *)
(* the length of the buffer; it visits no entry twice; and when no root    *)
(* container was declared the buffer is empty.                             *)
C16_ReplayTerminates ==
  FrameEnded =>
    LET w == Walk(c)
    IN /\ w.ok
       /\ \A k \in 1..Len(w.seq) :
            c.commandList[w.seq[k] + 1].typ = "jump" =>
              (c.commandList[w.seq[k] + 1].dst >= 0 /\
               c.commandList[w.seq[k] + 1].dst <= Len(c.commandList))
       /\ \A j, k \in 1..Len(w.seq) : j # k => w.seq[j] # w.seq[k]
       /\ Len(c.rootList) = 0 => c.commandList = <<>>

\* the walk has passed the head jump of a window declared inside another
\* one, and the window declared first was not the first to be drawn
C16_Witness ==
  /\ FrameEnded
  /\ Len(c.rootList) >= 2
  /\ c.containers[c.rootList[1]].HeadIdx # 0
  /\ \E i \in 1..Len(c.rootList) :
       /\ c.containers[c.rootList[i]].HeadIdx > 0
       /\ \E k \in 1..Len(Walk(c).seq) :
            Walk(c).seq[k] = c.containers[c.rootList[i]].HeadIdx

----------------------------------------------------------------------------
(* C20: as long as OpenPopup was not called in the frame, the next hover   *)
(* root is the window with the greatest z-index among the windows declared *)
(* open in the frame with the pointer inside their rectangle, none when    *)
(* there is no such window; begin makes it the hover root of the next      *)
(* frame, which is thus a window declared in the frame before or none; and *)
(* no step of a frame other than OpenPopup changes the hover root.         *)

\* the member of S with the greatest z-index, none for the empty set
TopUnder(S, ctx) ==
  IF S = {} THEN NoCnt
  ELSE CHOOSE h \in S : \A k \in S : ZOf(ctx, k) <= ZOf(ctx, h)

\* the step is a run of begin
BeginStep == phase = "idle" /\ phase' = "frame"

C20_HoverRootFromLastFrame ==
  [][/\ obs'.opened = {} => c'.nextHoverRoot = TopUnder(obs'.under, c')
     /\ (BeginStep /\ obs.opened = {}) =>
          /\ c'.hoverRoot = TopUnder(obs.under, c)
          /\ c'.hoverRoot # NoCnt => c'.hoverRoot \in obs.declared
     /\ (phase = "frame" /\ phase' = "frame" /\ obs'.op # "openpopup") =>
          c'.hoverRoot = c.hoverRoot]_vars

\* the second frame has ended without OpenPopup: B was declared before A,
\* the pointer was inside both, and B, created after A, is the next hover
\* root; the frame began with a hover root found in the first frame
C20_Witness ==
  /\ FrameEnded /\ c.tick = 2
  /\ obs.opened = {}
  /\ obs.under = {<<"A">>, <<"B">>}
  /\ c.containers[<<"B">>].HeadIdx < c.containers[<<"A">>].HeadIdx
  /\ ZOf(c, <<"A">>) < ZOf(c, <<"B">>)
  /\ c.nextHoverRoot = <<"B">>
  /\ c.hoverRoot = <<"A">>

----------------------------------------------------------------------------
(* C17: when End returns, the scroll offset of the container that was last *)
(* made the scroll target in this frame has grown by the scroll delta of   *)
(* the frame, and the scroll offset of every other container is what it    *)
(* was; when no container was made the scroll target in this frame, no     *)
(* scroll offset has changed.  begin leaves no scroll target.              *)
C17_ScrollGoesToTarget ==
  [][/\ EndStep =>
          \A k \in DOMAIN c.containers :
            c'.containers[k].Scroll =
              IF k = obs.marked THEN PtAdd(c.containers[k].Scroll, c.scrollDelta)
              ELSE c.containers[k].Scroll
     /\ BeginStep => c'.scrollTarget = NoCnt]_vars

\* End has scrolled the panel, marked after the window that holds it, and
\* has left the window where it was
C17_Witness ==
  /\ FrameEnded
  /\ obs.marked = <<"S", "N">>
  /\ obs.input.wheel = Pt(0, 3)
  /\ c.containers[<<"S", "N">>].Scroll = Pt(0, 3)
  /\ c.containers[<<"S">>].Scroll = Pt(0, 0)

----------------------------------------------------------------------------
(* C19: End empties the pressed buttons, the pressed keys, the text input  *)
(* and the scroll delta and leaves the buttons held, the keys held and the *)
(* pointer position as they are; the pressed buttons and keys are the same *)
(* from begin to End, and a button or key held over from the frame before  *)
(* is not pressed in the next frame: an edge lasts one frame.              *)
C19_EndResetsEdges ==
  [][/\ EndStep =>
          /\ c'.mousePressed = {} /\ c'.keyPressed = {}
          /\ c'.textInput = <<>> /\ c'.scrollDelta = Pt(0, 0)
          /\ c'.mouseDown = c.mouseDown /\ c'.keyDown = c.keyDown
          /\ c'.mousePos = c.mousePos
     /\ (phase = "frame" /\ phase' = "frame") =>
          /\ c'.mousePressed = c.mousePressed /\ c'.keyPressed = c.keyPressed
     /\ BeginStep =>
          /\ c.mousePressed = {} /\ c.keyPressed = {}
          /\ c'.mousePressed \cap c.mouseDown = {}
          /\ c'.keyPressed \cap c.keyDown = {}]_vars

\* End has used up a press, a key, a text and a turn of the wheel; the
\* button and the key are still held
C19_Witness ==
  /\ FrameEnded
  /\ obs.input.down = {mouseRight} /\ obs.input.keys = {"k"}
  /\ obs.input.text # <<>> /\ obs.input.wheel # Pt(0, 0)
  /\ c.tick = 1
  /\ c.mouseDown = {mouseRight} /\ c.keyDown = {"k"}
  /\ c.mousePressed = {} /\ c.keyPressed = {}
  /\ c.textInput = <<>> /\ c.scrollDelta = Pt(0, 0)
  /\ c.mousePos = obs.input.pos

----------------------------------------------------------------------------
(* Rectangles pushed on the clip stack of a reachable state: an empty one, *)
(* one larger than every window and one that straddles the windows.        *)

ClipSamples == {ZR, Rect(0, 0, 1000, 1000), Rect(60, 30, 120, 60)}

(* C18, as stated: in every state each entry of the clip stack above the   *)
(* bottom one is contained in the entry directly below it.                 *)
C18_ClipNested ==
  \A i \in 2..Len(c.clipStack) : RectIn(c.clipStack[i], c.clipStack[i - 1])

(* C18, amended: in every state each entry of the clip stack is either the *)
(* unclipped rectangle, which every window pushes first and which is the   *)
(* bottom entry, or is contained in the entry directly below it; and the   *)
(* entry that pushClipRect pushes onto a non-empty stack, for whatever     *)
(* rectangle, is the intersection of the rectangle with the top entry and  *)
(* is contained in it.                                                     *)
C18_ClipNestedBelowWindow ==
  /\ Len(c.clipStack) > 0 => c.clipStack[1] = unclippedRect
  /\ \A i \in 2..Len(c.clipStack) :
       \/ c.clipStack[i] = unclippedRect
       \/ RectIn(c.clipStack[i], c.clipStack[i - 1])
  /\ Len(c.clipStack) > 0 =>
       \A r \in ClipSamples :
         /\ Top(pushClipRect(c, r).clipStack) = Intersect(r, clipRect(c))
         /\ RectIn(Top(pushClipRect(c, r).clipStack), clipRect(c))
         /\ Pop(pushClipRect(c, r).clipStack) = c.clipStack

\* a panel inside a window declared inside another window: the inner
\* window's first entry is not within the outer window's body, the
\* panel's entry is within, and smaller than, the inner window's body
C18_Witness ==
  /\ phase = "frame"
  /\ Len(c.clipStack) = 5
  /\ c.clipStack[3] = unclippedRect
  /\ ~RectIn(c.clipStack[3], c.clipStack[2])
  /\ RectIn(c.clipStack[5], c.clipStack[4])
  /\ c.clipStack[5] # c.clipStack[4]
  /\ ~RectEmpty(c.clipStack[5])


----------------------------------------------------------------------------
(* C21: a header or tree node that is declared in every frame and whose    *)
(* pool entry is not evicted reports in a frame what it reported in the    *)
(* frame before, flipped if and only if it was clicked (left press while   *)
(* it has focus) in the frame before; as long as it has never been clicked *)
(* it reports collapsed, or expanded when it is declared pre-expanded; a   *)
(* tree node calls its callback in exactly the frames in which it reports  *)
(* expanded.  The pool of the model never evicts.                          *)

C21_ExpandedFollowsClicks ==
  \A w \in DOMAIN obs.hdr :
    /\ w \in DOMAIN obs.prev =>
         obs.hdr[w].rep = (obs.prev[w].rep # obs.prev[w].clk)
    /\ obs.hdr[w].fresh => obs.hdr[w].rep = obs.hdr[w].pre
    /\ obs.hdr[w].tree => obs.hdr[w].body = obs.hdr[w].rep

\* the third frame: the pre-expanded tree node t was clicked in the frame
\* before and reports collapsed, without calling its callback, and the
\* header h declared below it, clicked in no frame, reports collapsed as well
C21_Witness ==
  /\ <<"A", "t">> \in DOMAIN obs.hdr /\ <<"A", "t">> \in DOMAIN obs.prev
  /\ obs.prev[<<"A", "t">>].rep /\ obs.prev[<<"A", "t">>].clk
  /\ obs.prev[<<"A", "t">>].body
  /\ ~obs.hdr[<<"A", "t">>].rep /\ ~obs.hdr[<<"A", "t">>].body
  /\ <<"A", "h">> \in DOMAIN obs.hdr /\ <<"A", "h">> \in DOMAIN obs.prev
  /\ ~obs.hdr[<<"A", "h">>].rep /\ ~obs.prev[<<"A", "h">>].clk


----------------------------------------------------------------------------
(* C22: when the edit mode of a slider or of a number field ends (Return   *)
(* is pressed, or the widget has lost the focus), the widget leaves the    *)
(* edit mode and the variable of the caller it is bound to becomes the     *)
(* number parsed from the edit buffer, or zero when the buffer is not a    *)
(* number; for SliderEx as well as for NumberEx.                           *)

Parsed(str) == IF ParseFloatErr(str) THEN 0 ELSE ParseFloat(str)

EditEnded(kinds) == obs.op \in kinds /\ obs.num.ended

C22_EditEndStoresParsed ==
  EditEnded({"slider", "number"}) =>
    /\ c.numberEdit = NoID
    /\ c.heap[obs.num.ptr] = Parsed(c.numberEditBuf)

\* the same of the number field alone
C22_NumberEditEndStoresParsed ==
  EditEnded({"number"}) =>
    /\ c.numberEdit = NoID
    /\ c.heap[obs.num.ptr] = Parsed(c.numberEditBuf)

\* the edit mode of the number field ends with a buffer that has a digit
\* typed after the value the edit began with, and with one that is not a
\* number
C22_NumberWitness ==
  /\ EditEnded({"number"})
  /\ c.numberEditBuf = Append(Sprintf(NumberStart), "7")
  /\ c.heap["n"] = NumberStart * 10 + 7

C22_NumberNotANumber ==
  /\ EditEnded({"number"})
  /\ ParseFloatErr(c.numberEditBuf) /\ c.heap["n"] = 0

\* the slider leaves the edit mode, and in the next frame it is declared
\* again and shows the value it had before the edit
C22_SliderKeepsOldValue ==
  /\ obs.op = "slider" /\ ~obs.num.editing
  /\ c.numberEdit = NoID /\ c.numberEditBuf = Append(Sprintf(SliderStart), "7")
  /\ c.heap["s"] = SliderStart

=============================================================================
